---------------------------- MODULE Spec2Model ----------------------------
(***************************************************************************)
(* A model of the lead-trade dashboard: the year-over-year calculation of  *)
(* src/src/calculations.py, the geographic filters of src/src/filters.py   *)
(* and the filter / aggregation / ranking pipeline of the Streamlit script *)
(* src/app.py.                                                             *)
(*                                                                         *)
(* Conventions.  A DataFrame is a sequence of records (its rows, in row    *)
(* order); a column is the sequence of one field.  Python's None is the    *)
(* string None; a missing value (NaN) of a str column is the string NaN,   *)
(* neither is ever used as a name; a missing value of a float column is    *)
(* NaNf.  Strings are ordered as Python orders them (by code point)        *)
(* through StrOrder.  Quantities are integers: the sums and comparisons of *)
(* the code are modelled exactly, floating-point rounding is not.          *)
(***************************************************************************)
EXTENDS Integers, Sequences, FiniteSets, TLC

None == "None"
NaN == "NaN"
\* A cell of a float column holds << v >>, or << >> when the value is missing.
NaNf == << >>
Float(v) == << v >>

(***************************************************************************)
(* Bounds of the model.                                                    *)
(***************************************************************************)
\* |current_value| and |previous_value| handed to calculate_yoy_change
MaxValue == 6
\* rows of a country table
MaxCountryRows == 2
\* rows of a trade table
MaxTradeRows == 3

(***************************************************************************)
(* Strings of the model, in Python's order (sorted() on str).              *)
(***************************************************************************)
StrOrder ==
    << "260700", "780110", "780191", "780199", "780200", "850710", "850720",
       "854810",
       "Americas", "Argentina", "Asia", "Australia", "Austria", "Belgium",
       "Brazil", "Canada", "Caribbean", "Chile", "China", "Denmark",
       "Eastern Asia", "Egypt", "Europe", "Finland", "France", "Germany",
       "Greece", "India", "Italy", "Japan", "Kenya", "Mexico", "Morocco",
       "Nepal", "New Batteries", "New Lead", "Northern America", "Norway",
       "Ores & Concentrates",
       "Peru", "Poland", "Qatar", "South America", "Spain",
       "USA", "Used Batteries & Scrap", "Western Asia", "Western Europe" >>

StrPos(s) == CHOOSE i \in 1..Len(StrOrder) : StrOrder[i] = s

\* a < b for two str values
StrLess(a, b) == StrPos(a) < StrPos(b)

(***************************************************************************)
(* pandas / Python helpers.                                                *)
(***************************************************************************)
\* Series.notna()
NotNa(v) == v # NaN

\* the elements of a sequence
Range(s) == { s[i] : i \in 1..Len(s) }

\* all sequences over S of length at most n
SeqsUpTo(S, n) == UNION { [1..k -> S] : k \in 0..n }

\* Series.drop_duplicates(): the first occurrence of every value, in order
RECURSIVE DropDuplicates(_)
DropDuplicates(s) ==
    IF s = << >> THEN << >>
    ELSE LET front == DropDuplicates(SubSeq(s, 1, Len(s) - 1))
             last  == s[Len(s)]
         IN  IF last \in Range(front) THEN front ELSE Append(front, last)

\* one step of the sort: x goes after every element that is not greater
RECURSIVE InsertStr(_, _)
InsertStr(x, s) ==
    IF s = << >> THEN << x >>
    ELSE IF StrLess(x, s[Len(s)])
         THEN Append(InsertStr(x, SubSeq(s, 1, Len(s) - 1)), s[Len(s)])
         ELSE Append(s, x)

\* sorted(list of str)
RECURSIVE SortedStr(_)
SortedStr(s) ==
    IF s = << >> THEN << >>
    ELSE InsertStr(s[Len(s)], SortedStr(SubSeq(s, 1, Len(s) - 1)))


(***************************************************************************)
(* The product taxonomy of app.py: categories in dictionary order, each    *)
(* with its HS codes in list order (the descriptions play no part).        *)
(***************************************************************************)
HS_CODE_CATEGORIES ==
    << [category |-> "Ores & Concentrates", products |-> << "260700" >>],
       [category |-> "New Lead",
        products |-> << "780110", "780191", "780199" >>],
       [category |-> "New Batteries", products |-> << "850710", "850720" >>],
       [category |-> "Used Batteries & Scrap",
        products |-> << "854810", "780200" >>] >>

\* concatenation of a sequence of sequences
RECURSIVE Flatten(_)
Flatten(ss) ==
    IF ss = << >> THEN << >>
    ELSE Flatten(SubSeq(ss, 1, Len(ss) - 1)) \o ss[Len(ss)]

\* the HS codes in the order the two nested loops over the taxonomy visit them
TaxonomyCodes ==
    Flatten([i \in 1..Len(HS_CODE_CATEGORIES) |-> HS_CODE_CATEGORIES[i].products])

\* HS_TO_CATEGORY as used by Series.map: a code outside the dictionary maps
\* to NaN
HS_TO_CATEGORY(code) ==
    IF \E i \in 1..Len(HS_CODE_CATEGORIES) :
           code \in Range(HS_CODE_CATEGORIES[i].products)
    THEN HS_CODE_CATEGORIES[
             CHOOSE i \in 1..Len(HS_CODE_CATEGORIES) :
                 code \in Range(HS_CODE_CATEGORIES[i].products)].category
    ELSE NaN

(***************************************************************************)
(* src/src/calculations.py.  A float result is kept as an exact fraction   *)
(* [num, den] in lowest terms with den > 0.                                *)
(***************************************************************************)
Abs(n) == IF n < 0 THEN -n ELSE n

RECURSIVE Gcd(_, _)
Gcd(a, b) == IF b = 0 THEN a ELSE Gcd(b, a % b)

\* the fraction n / d, d # 0
Frac(n, d) ==
    LET g == Gcd(Abs(n), Abs(d))
        s == IF d < 0 THEN -1 ELSE 1
    IN  [num |-> (s * n) \div g, den |-> (s * d) \div g]

FracTimes(f, k) == Frac(f.num * k, f.den)

\* the variant of calculate_yoy_change that divides by the current value
calculate_yoy_change_divCurrent(current_value, previous_value) ==
    IF previous_value = 0 \/ current_value = 0 THEN Frac(0, 1)
    ELSE FracTimes(Frac(current_value - previous_value, current_value), 100)

calculate_yoy_change(current_value, previous_value) ==
    IF previous_value = 0 THEN Frac(0, 1)
    ELSE FracTimes(Frac(current_value - previous_value, previous_value), 100)

(***************************************************************************)
(* src/src/filters.py.                                                     *)
(***************************************************************************)
\* the variant of filter_by_geography that applies the region next to the
\* country
filter_by_geography_alsoRegion(df, region, subregion, intermediate_region, country) ==
    IF country # None
    THEN SelectSeq(df, LAMBDA r :
             /\ r.exporter_name = country
             /\ region # None => r.region = region)
    ELSE LET f1 == IF region # None
                   THEN SelectSeq(df, LAMBDA r : r.region = region)
                   ELSE df
             f2 == IF subregion # None
                   THEN SelectSeq(f1, LAMBDA r : r.subregion = subregion)
                   ELSE f1
             f3 == IF intermediate_region # None
                   THEN SelectSeq(f2, LAMBDA r :
                            r.intermediate_region = intermediate_region)
                   ELSE f2
         IN  f3

filter_by_geography(df, region, subregion, intermediate_region, country) ==
    IF country # None
    THEN SelectSeq(df, LAMBDA r : r.exporter_name = country)
    ELSE LET f1 == IF region # None
                   THEN SelectSeq(df, LAMBDA r : r.region = region)
                   ELSE df
             f2 == IF subregion # None
                   THEN SelectSeq(f1, LAMBDA r : r.subregion = subregion)
                   ELSE f1
             f3 == IF intermediate_region # None
                   THEN SelectSeq(f2, LAMBDA r :
                            r.intermediate_region = intermediate_region)
                   ELSE f2
         IN  f3

\* the variant of get_available_subregions that keeps repeated values
get_available_subregions_noDedup(df, region) ==
    LET notna    == SelectSeq(df, LAMBDA r : NotNa(r.subregion))
        filtered == IF region # None
                    THEN SelectSeq(notna, LAMBDA r : r.region = region)
                    ELSE notna
    IN  SortedStr([i \in 1..Len(filtered) |-> filtered[i].subregion])

get_available_subregions(df, region) ==
    LET notna    == SelectSeq(df, LAMBDA r : NotNa(r.subregion))
        filtered == IF region # None
                    THEN SelectSeq(notna, LAMBDA r : r.region = region)
                    ELSE notna
    IN  SortedStr(DropDuplicates(
            [i \in 1..Len(filtered) |-> filtered[i].subregion]))

get_available_intermediate_regions(df, region, subregion) ==
    LET notna == SelectSeq(df, LAMBDA r : NotNa(r.intermediate_region))
        f1    == IF region # None
                 THEN SelectSeq(notna, LAMBDA r : r.region = region)
                 ELSE notna
        f2    == IF subregion # None
                 THEN SelectSeq(f1, LAMBDA r : r.subregion = subregion)
                 ELSE f1
    IN  SortedStr(DropDuplicates(
            [i \in 1..Len(f2) |-> f2[i].intermediate_region]))

\* the variant of get_available_countries whose subregion filter starts again
\* from the unfiltered table
get_available_countries_resetsFilter(df, region, subregion, intermediate_region) ==
    LET notna == SelectSeq(df, LAMBDA r : NotNa(r.name))
        f1    == IF region # None
                 THEN SelectSeq(notna, LAMBDA r : r.region = region)
                 ELSE notna
        f2    == IF subregion # None
                 THEN SelectSeq(notna, LAMBDA r : r.subregion = subregion)
                 ELSE f1
        f3    == IF intermediate_region # None
                 THEN SelectSeq(f2, LAMBDA r :
                          r.intermediate_region = intermediate_region)
                 ELSE f2
    IN  SortedStr(DropDuplicates([i \in 1..Len(f3) |-> f3[i].name]))

get_available_countries(df, region, subregion, intermediate_region) ==
    LET notna == SelectSeq(df, LAMBDA r : NotNa(r.name))
        f1    == IF region # None
                 THEN SelectSeq(notna, LAMBDA r : r.region = region)
                 ELSE notna
        f2    == IF subregion # None
                 THEN SelectSeq(f1, LAMBDA r : r.subregion = subregion)
                 ELSE f1
        f3    == IF intermediate_region # None
                 THEN SelectSeq(f2, LAMBDA r :
                          r.intermediate_region = intermediate_region)
                 ELSE f2
    IN  SortedStr(DropDuplicates([i \in 1..Len(f3) |-> f3[i].name]))

(***************************************************************************)
(* Sorting and grouping on integer keys.  A key is a tuple of integers     *)
(* (a str column enters as its position in StrOrder), compared left to     *)
(* right as pandas compares the levels of a group key.                     *)
(***************************************************************************)
LexLess(a, b) ==
    \E i \in 1..Len(a) : a[i] < b[i] /\ \A j \in 1..(i - 1) : a[j] = b[j]

RECURSIVE InsertKey(_, _)
InsertKey(x, s) ==
    IF s = << >> THEN << x >>
    ELSE IF LexLess(x, s[Len(s)])
         THEN Append(InsertKey(x, SubSeq(s, 1, Len(s) - 1)), s[Len(s)])
         ELSE Append(s, x)

RECURSIVE SortedKeys(_)
SortedKeys(s) ==
    IF s = << >> THEN << >>
    ELSE InsertKey(s[Len(s)], SortedKeys(SubSeq(s, 1, Len(s) - 1)))

\* the variant of Series.sum() that first forward-fills a missing value from
\* the row before it
RECURSIVE SumQuantity_ffill(_)
SumQuantity_ffill(qs) ==
    IF qs = << >> THEN 0
    ELSE LET n == Len(qs)
             filled == IF qs[n] # NaNf THEN qs[n][1]
                       ELSE IF n > 1 /\ qs[n - 1] # NaNf THEN qs[n - 1][1]
                       ELSE 0
         IN  SumQuantity_ffill(SubSeq(qs, 1, n - 1)) + filled

\* Series.sum() of a float column: skipna=True, the empty sum is 0
RECURSIVE SumQuantity(_)
SumQuantity(qs) ==
    IF qs = << >> THEN 0
    ELSE SumQuantity(SubSeq(qs, 1, Len(qs) - 1))
         + (IF qs[Len(qs)] # NaNf THEN qs[Len(qs)][1] ELSE 0)

\* the quantity column
Quantity(rows) == [i \in 1..Len(rows) |-> rows[i].quantity]

\* the variant of the grouping that keeps the first record of each group
GroupSum_firstOfGroup(entries) ==
    LET keys == SortedKeys(DropDuplicates(
                    [i \in 1..Len(entries) |-> entries[i].key]))
    IN  [i \in 1..Len(keys) |->
            [key |-> keys[i],
             quantity |-> SumQuantity(<< Quantity(
                 SelectSeq(entries, LAMBDA e : e.key = keys[i]))[1] >>)]]

\* groupby(keys)['quantity'].sum() over entries [key, quantity]: one entry per
\* distinct key, in ascending key order (sort=True), each the sum of the
\* non-missing quantities of its group
GroupSum(entries) ==
    LET keys == SortedKeys(DropDuplicates(
                    [i \in 1..Len(entries) |-> entries[i].key]))
    IN  [i \in 1..Len(keys) |->
            [key |-> keys[i],
             quantity |-> SumQuantity(Quantity(
                 SelectSeq(entries, LAMBDA e : e.key = keys[i])))]]

(***************************************************************************)
(* src/app.py: the sidebar and the geographic selectors (lines 203-264).   *)
(***************************************************************************)
\* lines 210-224: the ticked codes in taxonomy order, or the first code of
\* the first category when none is ticked
\* the variant of the checkbox loop without the fallback of lines 222-224
SelectedHsCodes_noFallback(ticked) ==
    SelectSeq(TaxonomyCodes, LAMBDA c : c \in ticked)

SelectedHsCodes(ticked) ==
    LET checked == SelectSeq(TaxonomyCodes, LAMBDA c : c \in ticked)
    IN  IF checked = << >> THEN << HS_CODE_CATEGORIES[1].products[1] >>
        ELSE checked

\* line 241
Regions(cdf) ==
    SortedStr(DropDuplicates([i \in 1..Len(cdf) |-> cdf[i].region]))

\* One conjunct "(col == @x or @x == @x)" of the DataFrame.query strings.
\* For a str x pandas rewrites both comparisons to membership tests: the
\* first becomes col.isin([x]), the second "[x] in [x]", which is False; for
\* x = None the second is None == None, True for every row.
QueryMatch_selfEqual(value, chosen) == value = chosen \/ chosen = chosen

QueryMatch(value, chosen) ==
    IF chosen = None THEN TRUE ELSE value = chosen

\* lines 245-247
AppSubregions(cdf, region) ==
    LET notna == SelectSeq(cdf, LAMBDA r : NotNa(r.subregion))
        q     == SelectSeq(notna, LAMBDA r : QueryMatch(r.region, region))
    IN  SortedStr(DropDuplicates([i \in 1..Len(q) |-> q[i].subregion]))

\* lines 251-253
AppIntermediate(cdf, region, subregion) ==
    LET notna == SelectSeq(cdf, LAMBDA r : NotNa(r.intermediate_region))
        q     == SelectSeq(notna, LAMBDA r :
                     /\ QueryMatch(r.region, region)
                     /\ QueryMatch(r.subregion, subregion))
    IN  SortedStr(DropDuplicates(
            [i \in 1..Len(q) |-> q[i].intermediate_region]))

\* lines 257-263
AppCountries(cdf, region, subregion, intermediate_region) ==
    LET notna == SelectSeq(cdf, LAMBDA r : NotNa(r.name))
        q     == SelectSeq(notna, LAMBDA r :
                     /\ QueryMatch(r.region, region)
                     /\ QueryMatch(r.subregion, subregion)
                     /\ QueryMatch(r.intermediate_region, intermediate_region))
    IN  SortedStr(DropDuplicates([i \in 1..Len(q) |-> q[i].name]))

(***************************************************************************)
(* src/app.py: filtering and the two trade flows (lines 266-278).          *)
(***************************************************************************)
\* the variant of the year filter that excludes the upper bound
DfFiltered_exclusiveMax(df, selected_hs_codes, selected_years) ==
    SelectSeq(df, LAMBDA r :
        /\ r.product \in Range(selected_hs_codes)
        /\ selected_years[1] <= r.year /\ r.year < selected_years[2])

\* the variant of the year filter that keeps the year before the range
DfFiltered_withYearBefore(df, selected_hs_codes, selected_years) ==
    SelectSeq(df, LAMBDA r :
        /\ r.product \in Range(selected_hs_codes)
        /\ selected_years[1] - 1 <= r.year /\ r.year <= selected_years[2])

\* lines 267-270: isin(selected_hs_codes) & between(lo, hi), inclusive
DfFiltered(df, selected_hs_codes, selected_years) ==
    SelectSeq(df, LAMBDA r :
        /\ r.product \in Range(selected_hs_codes)
        /\ selected_years[1] <= r.year /\ r.year <= selected_years[2])

\* the variant of the exports that leaves out trade inside the selection
Exports_noIntraGroup(df_filtered, country, countries) ==
    IF country # None
    THEN SelectSeq(df_filtered, LAMBDA r :
             r.exporter_name = country /\ r.importer_name # country)
    ELSE SelectSeq(df_filtered, LAMBDA r :
             /\ r.exporter_name \in Range(countries)
             /\ r.importer_name \notin Range(countries))

\* lines 273-274, 277
Exports(df_filtered, country, countries) ==
    IF country # None
    THEN SelectSeq(df_filtered, LAMBDA r : r.exporter_name = country)
    ELSE SelectSeq(df_filtered, LAMBDA r : r.exporter_name \in Range(countries))

\* lines 273, 275, 278
\* the variant of the imports that falls back to every record when the
\* selection resolves to no country
Imports_fallbackAll(df_filtered, country, countries) ==
    IF country # None
    THEN SelectSeq(df_filtered, LAMBDA r : r.importer_name = country)
    ELSE IF countries = << >> THEN df_filtered
    ELSE SelectSeq(df_filtered, LAMBDA r : r.importer_name \in Range(countries))

Imports(df_filtered, country, countries) ==
    IF country # None
    THEN SelectSeq(df_filtered, LAMBDA r : r.importer_name = country)
    ELSE SelectSeq(df_filtered, LAMBDA r : r.importer_name \in Range(countries))

(***************************************************************************)
(* src/app.py: the data offered for download (lines 765-772).              *)
(***************************************************************************)
\* the variant that puts the two flows one after the other
FilteredData_concat(df_filtered, country, countries) ==
    Exports(df_filtered, country, countries)
        \o Imports(df_filtered, country, countries)

\* lines 766-772
FilteredData(df_filtered, country, countries) ==
    IF country # None
    THEN SelectSeq(df_filtered, LAMBDA r :
             r.exporter_name = country \/ r.importer_name = country)
    ELSE SelectSeq(df_filtered, LAMBDA r :
             \/ r.exporter_name \in Range(countries)
             \/ r.importer_name \in Range(countries))

(***************************************************************************)
(* src/app.py: key metrics (lines 288-341).                                *)
(***************************************************************************)
\* Series.max() of the year column: NaN for an empty table
MaxYear(rows) ==
    IF rows = << >> THEN NaNf
    ELSE Float(CHOOSE y \in { rows[i].year : i \in 1..Len(rows) } :
                   \A i \in 1..Len(rows) : rows[i].year <= y)

\* the variant of the metrics year that looks at the two flows
MetricsYear_ofFlows(df_filtered, exports, imports) ==
    MaxYear(exports \o imports)

\* line 293: selected_metrics_year = df_filtered.year.max()
MetricsYear(df_filtered, exports, imports) ==
    MaxYear(df_filtered)

\* rows[rows['year'] == year]: no row equals NaN
RowsOfYear(rows, year) ==
    IF year = NaNf THEN << >>
    ELSE SelectSeq(rows, LAMBDA r : r.year = year[1])

\* selected_metrics_year - 1
PreviousYear(year) == IF year = NaNf THEN NaNf ELSE Float(year[1] - 1)

\* the variant of the trade balance that reports its size without the sign
TradeBalance_unsigned(total_exports, total_imports) ==
    IF total_exports >= total_imports THEN total_exports - total_imports
    ELSE total_imports - total_exports

\* line 336
TradeBalance(total_exports, total_imports) ==
    total_exports - total_imports

\* the variant of the partner count that adds the two sides
NumPartners_addsSides(exports_year, imports_year) ==
    Cardinality({ exports_year[i].importer_name : i \in 1..Len(exports_year) })
    + Cardinality({ imports_year[i].exporter_name : i \in 1..Len(imports_year) })

\* line 340
NumPartners(exports_year, imports_year) ==
    Cardinality({ exports_year[i].importer_name : i \in 1..Len(exports_year) }
                \cup
                { imports_year[i].exporter_name : i \in 1..Len(imports_year) })

(***************************************************************************)
(* src/app.py: the time series (lines 350-377).                            *)
(***************************************************************************)
\* groupby(['year', 'category', 'product'])['quantity'].sum().reset_index();
\* a row whose category is missing belongs to no group (dropna=True)
YearlyByProduct(rows) ==
    LET keyed == SelectSeq(rows, LAMBDA r : NotNa(r.category))
        g == GroupSum([i \in 1..Len(keyed) |->
                 [key |-> << keyed[i].year, StrPos(keyed[i].category),
                             StrPos(keyed[i].product) >>,
                  quantity |-> keyed[i].quantity]])
    IN  [i \in 1..Len(g) |->
            [year |-> g[i].key[1], category |-> StrOrder[g[i].key[2]],
             product |-> StrOrder[g[i].key[3]], quantity |-> g[i].quantity]]

\* groupby(['year', 'category']).sum().reset_index() of a time series, whose
\* quantities are sums and so never missing
YearlyByCategory(yearly) ==
    LET g == GroupSum([i \in 1..Len(yearly) |->
                 [key |-> << yearly[i].year, StrPos(yearly[i].category) >>,
                  quantity |-> Float(yearly[i].quantity)]])
    IN  [i \in 1..Len(g) |->
            [year |-> g[i].key[1], category |-> StrOrder[g[i].key[2]],
             quantity |-> g[i].quantity]]

(***************************************************************************)
(* src/app.py: the top partners of a year (lines 525-561 and 671-708).     *)
(***************************************************************************)
\* head(20)
TopN == 20

\* sorted(rows['year'].unique(), reverse=True)
AvailableYears(rows) ==
    LET ys == SortedKeys(DropDuplicates(
                  [i \in 1..Len(rows) |-> << rows[i].year >>]))
    IN  [i \in 1..Len(ys) |-> ys[Len(ys) + 1 - i][1]]

\* groupby('importer_name')['quantity'].sum(): one entry per partner of the
\* exports, in ascending name order
ExportTotals(rows) ==
    LET g == GroupSum([i \in 1..Len(rows) |->
                 [key |-> << StrPos(rows[i].importer_name) >>,
                  quantity |-> rows[i].quantity]])
    IN  [i \in 1..Len(g) |->
            [name |-> StrOrder[g[i].key[1]], quantity |-> g[i].quantity]]

\* groupby('exporter_name')['quantity'].sum() of the imports
ImportTotals(rows) ==
    LET g == GroupSum([i \in 1..Len(rows) |->
                 [key |-> << StrPos(rows[i].exporter_name) >>,
                  quantity |-> rows[i].quantity]])
    IN  [i \in 1..Len(g) |->
            [name |-> StrOrder[g[i].key[1]], quantity |-> g[i].quantity]]

\* the variant of the ranking that sorts ascending before head(n)
RECURSIVE SortValuesHead_ascending(_, _)
SortValuesHead_ascending(totals, n) ==
    IF totals = {} \/ n = 0 THEN { << >> }
    ELSE LET low == { e \in totals :
                        \A f \in totals : e.quantity <= f.quantity }
         IN  UNION { { << e >> \o rest :
                         rest \in SortValuesHead_ascending(totals \ {e}, n - 1) } :
                     e \in low }

\* the variant of the ranking that keeps the last n of the descending order
SortValuesHead_keepsLast(totals, n) ==
    { [i \in 1..Len(up) |-> up[Len(up) + 1 - i]] :
        up \in SortValuesHead_ascending(totals, n) }

\* sort_values(ascending=False).head(n) of a set of totals: every result the
\* sort can give.  The default sort kind is quicksort, which is not stable: the
\* order of equal totals is whatever the build's sort produces, so every order
\* of a group of equal totals is an outcome.
RECURSIVE SortValuesHead(_, _)
SortValuesHead(totals, n) ==
    IF totals = {} \/ n = 0 THEN { << >> }
    ELSE LET high == { e \in totals :
                         \A f \in totals : e.quantity >= f.quantity }
         IN  UNION { { << e >> \o rest :
                         rest \in SortValuesHead(totals \ {e}, n - 1) } :
                     e \in high }

\* the index of country_totals
Names(totals) == { totals[i].name : i \in 1..Len(totals) }

\* lines 549-555: the rows of the ranked partners, grouped by (year, product,
\* importer_name)
TopExports(rows, country_totals) ==
    LET top == SelectSeq(rows, LAMBDA r :
                   r.importer_name \in Names(country_totals))
        g == GroupSum([i \in 1..Len(top) |->
                 [key |-> << top[i].year, StrPos(top[i].product),
                             StrPos(top[i].importer_name) >>,
                  quantity |-> top[i].quantity]])
    IN  [i \in 1..Len(g) |->
            [year |-> g[i].key[1], product |-> StrOrder[g[i].key[2]],
             importer_name |-> StrOrder[g[i].key[3]],
             quantity |-> g[i].quantity]]

\* lines 696-702: the same for the imports, by (year, product, exporter_name)
TopImports(rows, country_totals) ==
    LET top == SelectSeq(rows, LAMBDA r :
                   r.exporter_name \in Names(country_totals))
        g == GroupSum([i \in 1..Len(top) |->
                 [key |-> << top[i].year, StrPos(top[i].product),
                             StrPos(top[i].exporter_name) >>,
                  quantity |-> top[i].quantity]])
    IN  [i \in 1..Len(g) |->
            [year |-> g[i].key[1], product |-> StrOrder[g[i].key[2]],
             exporter_name |-> StrOrder[g[i].key[3]],
             quantity |-> g[i].quantity]]

(***************************************************************************)
(* Strings, character by character.                                        *)
(***************************************************************************)
DigitChars == << "0", "1", "2", "3", "4", "5", "6", "7", "8", "9" >>

\* str(n) of an int n >= 0
RECURSIVE IntStr(_)
IntStr(n) ==
    IF n < 10 THEN DigitChars[n + 1]
    ELSE IntStr(n \div 10) \o DigitChars[(n % 10) + 1]

\* The values of the product column as read_csv types them: an int64, a str
\* of an object column, a float64 with an integral value, or a missing value.
\* A number is in the field value, a str in the field text.
Int64(n) == [dtype |-> "int64", value |-> n, text |-> ""]
Object(s) == [dtype |-> "object", value |-> 0, text |-> s]
Float64(n) == [dtype |-> "float64", value |-> n, text |-> ""]
MissingProduct == [dtype |-> "nan", value |-> 0, text |-> ""]

\* Series.astype(str), element by element
AsTypeStr(v) ==
    CASE v.dtype = "int64" -> IntStr(v.value)
      [] v.dtype = "object" -> v.text
      [] v.dtype = "float64" -> IntStr(v.value) \o ".0"
      [] v.dtype = "nan" -> "nan"

\* the variant of zfill that pads on the right
RECURSIVE Zfill_padsRight(_, _)
Zfill_padsRight(s, width) ==
    IF Len(s) >= width THEN s ELSE Zfill_padsRight(s \o "0", width)

\* the variant of zfill that stops one character short
RECURSIVE Zfill_oneShort(_, _)
Zfill_oneShort(s, width) ==
    IF Len(s) + 1 >= width THEN s ELSE Zfill_oneShort("0" \o s, width)

\* Series.str.zfill(width) on strings without a sign: zeros on the left up to
\* the width, a longer string as it is
RECURSIVE Zfill(_, _)
Zfill(s, width) ==
    IF Len(s) >= width THEN s ELSE Zfill("0" \o s, width)

\* the variant of str.replace that rewrites only a value that is the pattern
StrReplace_wholeValue(s, old, new) ==
    IF s = old THEN new ELSE s

\* Series.str.replace(old, new, regex=False) on one value: every occurrence
\* of old, from the left, without overlap; a missing value stays missing
RECURSIVE StrReplace(_, _, _)
StrReplace(s, old, new) ==
    IF Len(s) < Len(old) THEN s
    ELSE IF SubSeq(s, 1, Len(old)) = old
         THEN new \o StrReplace(SubSeq(s, Len(old) + 1, Len(s)), old, new)
         ELSE SubSeq(s, 1, 1) \o StrReplace(SubSeq(s, 2, Len(s)), old, new)

(***************************************************************************)
(* src/src/config.py: the taxonomy the loader of data_loader.py imports.   *)
(***************************************************************************)
\* lines 16-33, the descriptions left out
CONFIG_HS_CODE_CATEGORIES ==
    << [category |-> "Ores & Concentrates", products |-> << "260700" >>],
       [category |-> "New Lead",
        products |-> << "780110", "780191", "780199" >>],
       [category |-> "New Batteries", products |-> << "850710", "850720" >>],
       [category |-> "Used Batteries & Scrap",
        products |-> << "854810", "780200" >>] >>

\* the variant of the mapping that gives an unknown code the first category
CONFIG_HS_TO_CATEGORY_defaults(code) ==
    IF \E k \in 1..Len(CONFIG_HS_CODE_CATEGORIES) :
           code \in Range(CONFIG_HS_CODE_CATEGORIES[k].products)
    THEN LET k == CHOOSE k \in 1..Len(CONFIG_HS_CODE_CATEGORIES) :
                      code \in Range(CONFIG_HS_CODE_CATEGORIES[k].products)
         IN  CONFIG_HS_CODE_CATEGORIES[k].category
    ELSE CONFIG_HS_CODE_CATEGORIES[1].category

\* lines 76-80 and Series.map(HS_TO_CATEGORY): the dict comprehension keeps,
\* for a code, the category of its last listing; a code that is no key maps
\* to a missing value
CONFIG_HS_TO_CATEGORY(code) ==
    IF \E k \in 1..Len(CONFIG_HS_CODE_CATEGORIES) :
           code \in Range(CONFIG_HS_CODE_CATEGORIES[k].products)
    THEN LET k == CHOOSE k \in 1..Len(CONFIG_HS_CODE_CATEGORIES) :
                      /\ code \in Range(CONFIG_HS_CODE_CATEGORIES[k].products)
                      /\ \A j \in (k + 1)..Len(CONFIG_HS_CODE_CATEGORIES) :
                             code \notin
                                 Range(CONFIG_HS_CODE_CATEGORIES[j].products)
         IN  CONFIG_HS_CODE_CATEGORIES[k].category
    ELSE NaN

(***************************************************************************)
(* src/src/data_loader.py.  A source is what the file path leads to: no    *)
(* file, a file that cannot be read, a file read_csv cannot parse, or a    *)
(* table with its columns and rows.  A row is a record with a field for    *)
(* every column of a trade table; a column that is not among the columns   *)
(* of the source is never read.                                            *)
(***************************************************************************)
\* (a character outside ASCII is written as its HTML entity: the corrupted
\* name is T, A with tilde, one quarter, rkiye; the repaired one has u with
\* diaeresis)
Corrupted == "T&Atilde;&frac14;rkiye"
Repaired == "T&uuml;rkiye"

TradeErrorPrefix == "Error loading trade data: "
CountryErrorPrefix == "Error loading country data: "

\* the outcome of a call: an exception with its message, or a value
Raised(message) == [raised |-> TRUE, message |-> message, returned |-> << >>]
Returned(value) == [raised |-> FALSE, message |-> "", returned |-> << value >>]

\* str(e) of the exception pd.read_csv raises on a source without a table
ReadCsvError(source) ==
    CASE source.state = "missing" -> "[Errno 2] No such file or directory"
      [] source.state = "unreadable" -> "[Errno 13] Permission denied"
      [] source.state = "malformed" -> "Error tokenizing data"

\* a column has the str accessor when it is of dtype object: it is empty or
\* has a str in it; a column of missing values alone is float64
HasStrAccessor(values) ==
    values = << >> \/ \E i \in 1..Len(values) : values[i] # NaN

\* lines 29-37 on a table with the three columns
Processed(rows) ==
    [i \in 1..Len(rows) |->
        LET product == Zfill(AsTypeStr(rows[i].product), 6)
        IN  [year |-> rows[i].year,
             product |-> product,
             exporter_name |->
                 StrReplace(rows[i].exporter_name, Corrupted, Repaired),
             importer_name |->
                 StrReplace(rows[i].importer_name, Corrupted, Repaired),
             quantity |-> rows[i].quantity,
             category |-> CONFIG_HS_TO_CATEGORY(product)]]

\* the variant of load_trade_data that answers a table it cannot process
\* with an empty table
load_trade_data_returnsEmpty(source) ==
    IF source.state # "table"
    THEN Raised(TradeErrorPrefix \o ReadCsvError(source))
    ELSE IF { "exporter_name", "importer_name", "product" }
                \subseteq source.columns
              /\ HasStrAccessor([i \in 1..Len(source.rows) |->
                                    source.rows[i].exporter_name])
              /\ HasStrAccessor([i \in 1..Len(source.rows) |->
                                    source.rows[i].importer_name])
         THEN Returned(Processed(source.rows))
         ELSE Returned(<< >>)

\* lines 7-41
load_trade_data(source) ==
    IF source.state # "table"
    THEN Raised(TradeErrorPrefix \o ReadCsvError(source))
    ELSE IF "exporter_name" \notin source.columns
    THEN Raised(TradeErrorPrefix \o "'exporter_name'")
    ELSE IF ~ HasStrAccessor([i \in 1..Len(source.rows) |->
                                 source.rows[i].exporter_name])
    THEN Raised(TradeErrorPrefix
                \o "Can only use .str accessor with string values!")
    ELSE IF "importer_name" \notin source.columns
    THEN Raised(TradeErrorPrefix \o "'importer_name'")
    ELSE IF ~ HasStrAccessor([i \in 1..Len(source.rows) |->
                                 source.rows[i].importer_name])
    THEN Raised(TradeErrorPrefix
                \o "Can only use .str accessor with string values!")
    ELSE IF "product" \notin source.columns
    THEN Raised(TradeErrorPrefix \o "'product'")
    ELSE Returned(Processed(source.rows))

\* lines 44-61
load_country_data(source) ==
    IF source.state # "table"
    THEN Raised(CountryErrorPrefix \o ReadCsvError(source))
    ELSE Returned(source.rows)

\* lines 33-34 once more, on the product column of a loaded table: astype(str)
\* of a str is the str
PadAgain(table) ==
    [i \in 1..Len(table) |-> Zfill(AsTypeStr(Object(table[i].product)), 6)]

(***************************************************************************)
(* src/app.py: the colours of the time-series charts (lines 118-157,       *)
(* 474-487 and 621-634).                                                   *)
(***************************************************************************)
\* lines 118-154: the colour configured for a code
HS_CODE_COLORS(code) ==
    CASE code = "260700" -> "#A0522D"
      [] code = "780110" -> "#707070"
      [] code = "780191" -> "#8C8C8C"
      [] code = "780199" -> "#A5A5A5"
      [] code = "850710" -> "#1B6B1B"
      [] code = "850720" -> "#3DA23D"
      [] code = "854810" -> "#E66E00"
      [] code = "780200" -> "#FF9933"

\* lines 485 and 632: [HS_CODE_COLORS[code] for code in selected_hs_codes]
ColorSequence(selected_hs_codes) ==
    [k \in 1..Len(selected_hs_codes) |-> HS_CODE_COLORS(selected_hs_codes[k])]

\* the distinct values of product_label in the row order of a time series;
\* hs_code_labels (lines 344-348) gives each code a label of its own, so a
\* label stands for its code
TraceOrder(yearly) ==
    DropDuplicates([i \in 1..Len(yearly) |-> yearly[i].product])

\* px.bar(yearly, color='product_label', color_discrete_sequence=colors):
\* the k-th distinct label gets the k-th colour, the sequence being cycled
BarColors(yearly, colors) ==
    LET order == TraceOrder(yearly)
    IN  [k \in 1..Len(order) |->
            [product |-> order[k],
             color |-> colors[((k - 1) % Len(colors)) + 1]]]

(***************************************************************************)
(* src/charts.py: the template, the colours of a theme and the layout      *)
(* apply_chart_theme gives a figure.  An optional argument is a sequence   *)
(* of length 0 or 1; a title is None, '' or a text.                        *)
(***************************************************************************)
\* lines 11-21
get_plotly_template(t) ==
    IF t = "light" THEN "plotly" ELSE "plotly_dark"

\* a variant that knows the two documented themes only
get_theme_colors_lightUnlessDark(t) ==
    IF t # "dark"
    THEN [font_color |-> "#1a1a1a", grid_color |-> "rgba(128,128,128,0.1)",
          line_color |-> "rgba(128,128,128,0.2)"]
    ELSE [font_color |-> "#ffffff", grid_color |-> "rgba(128,128,128,0.1)",
          line_color |-> "rgba(128,128,128,0.2)"]

\* lines 24-45
get_theme_colors(t) ==
    IF t = "light"
    THEN [font_color |-> "#1a1a1a", grid_color |-> "rgba(128,128,128,0.1)",
          line_color |-> "rgba(128,128,128,0.2)"]
    ELSE [font_color |-> "#ffffff", grid_color |-> "rgba(128,128,128,0.1)",
          line_color |-> "rgba(128,128,128,0.2)"]

\* bool(title) of a title argument
Truthy(title) == title # None /\ title # ""

\* lines 48-140: the layout given to the figure, with the default margin and
\* height and no x-axis title
apply_chart_theme(t, position, y_title, tick_angle) ==
    LET colors == get_theme_colors(t)
    IN  [font |-> [color |-> colors.font_color, size |-> 12],
         title_font |-> [color |-> colors.font_color, size |-> 16],
         legend |-> IF position = "bottom"
                    THEN [visible |-> TRUE, orientation |-> "h",
                          yanchor |-> "bottom", xanchor |-> "center"]
                    ELSE IF position = "top"
                    THEN [visible |-> TRUE, orientation |-> "h",
                          yanchor |-> "", xanchor |-> ""]
                    ELSE [visible |-> FALSE, orientation |-> "",
                          yanchor |-> "", xanchor |-> ""],
         xaxis |-> [gridcolor |-> colors.grid_color,
                    linecolor |-> colors.line_color,
                    tickangle |-> tick_angle,
                    automargin |-> tick_angle # << >>],
         yaxis |-> [gridcolor |-> colors.grid_color,
                    linecolor |-> colors.line_color,
                    title |-> IF Truthy(y_title) THEN << y_title >> ELSE << >>]]

(***************************************************************************)
(* src/components/analytics.py.  An HTML file is the sequence of its tags. *)
(***************************************************************************)
\* lines 8, 10-13: the id looked for, and the markup inserted, which is a
\* comment and a script element without an id
ANALYTICS_ID == "simple_analytics"
ANALYTICS_JS == "<script async src=simpleanalyticscdn>"

\* an element that carries the id
TagWithId(id) == "<script id=" \o id \o ">"

\* line 20: soup.find(id=ANALYTICS_ID) finds an element
SoupFind(html, id) == \E i \in 1..Len(html) : html[i] = TagWithId(id)

\* line 31: str(soup) of the parsed file; html.parser closes a head element
\* left open
SoupStr(html) ==
    IF (\E i \in 1..Len(html) : html[i] = "<head>")
       /\ ~ (\E i \in 1..Len(html) : html[i] = "</head>")
    THEN html \o << "</head>" >>
    ELSE html

\* line 32: html.replace('</head>', ANALYTICS_JS + '\n</head>')
RECURSIVE InsertBeforeHeadEnd(_, _)
InsertBeforeHeadEnd(html, js) ==
    IF html = << >> THEN << >>
    ELSE (IF Head(html) = "</head>" THEN << js, "</head>" >>
          ELSE << Head(html) >>)
         \o InsertBeforeHeadEnd(Tail(html), js)

File(content) == [exists |-> TRUE, content |-> content]

\* lines 7-33: the two files after a call.  The copy of the backup over
\* index.html (line 25) is overwritten by the write of line 33, whose text
\* comes from the file as it was read on line 17
inject_simple_analytics(index, bck) ==
    IF SoupFind(index, ANALYTICS_ID) THEN [index |-> index, bck |-> bck]
    ELSE [index |-> InsertBeforeHeadEnd(SoupStr(index), ANALYTICS_JS),
          bck |-> IF bck.exists THEN bck ELSE File(index)]

(***************************************************************************)
(* src/app.py: the two cached loaders and the stop (lines 175-201).  The   *)
(* value bound to df or country_df is a DataFrame, None, or the tuple      *)
(* (None, None).                                                           *)
(***************************************************************************)
DataFrame(rows) == [type |-> "DataFrame", table |-> rows]
NoneValue == [type |-> "None", table |-> << >>]
TupleOfNone == [type |-> "tuple", table |-> << >>]

\* lines 181-182 on a table with a product column
AppProcessed(rows) ==
    [i \in 1..Len(rows) |->
        LET product == Zfill(AsTypeStr(rows[i].product), 6)
        IN  [year |-> rows[i].year,
             product |-> product,
             exporter_name |-> rows[i].exporter_name,
             importer_name |-> rows[i].importer_name,
             quantity |-> rows[i].quantity,
             category |-> HS_TO_CATEGORY(product)]]

\* lines 176-187, the body: an exception is reported with st.error and None
\* is returned
app_load_trade_data(source) ==
    IF source.state # "table" THEN NoneValue
    ELSE IF "product" \notin source.columns THEN NoneValue
    ELSE DataFrame(AppProcessed(source.rows))

\* lines 189-196, the body: the except branch returns None, None
app_load_country_data(source) ==
    IF source.state # "table" THEN TupleOfNone
    ELSE DataFrame(source.rows)

\* the variant of the cache that keeps DataFrames only
CacheStore_skipsFailures(value) ==
    IF value.type = "DataFrame" THEN << value >> ELSE << >>

\* @st.cache_data, lines 175 and 188: the value the body returned is stored
\* under the (empty) arguments of the call, whatever it is
CacheStore(value) ==
    << value >>

\* line 200: df is None or country_df is None
IsNone(value) == value.type = "None"

(***************************************************************************)
(* State.                                                                  *)
(***************************************************************************)
VARIABLES
    pc,                    \* how far the run has come
    \* a call of calculate_yoy_change
    current_value, previous_value, yoy,
    \* the loaded tables
    country_df, df,
    \* the widgets of app.py, which are also the arguments of filters.py
    ticked, selected_years, region, subregion, intermediate_region, country,
    \* the results of filters.py
    avail_subregions, avail_intermediate, avail_countries, geo_filtered,
    \* app.py lines 203-278
    selected_hs_codes, subregions, intermediate, countries,
    df_filtered, exports, imports,
    \* app.py lines 288-341
    selected_metrics_year, total_exports, total_imports,
    exports_prev_year, imports_prev_year, exports_change, imports_change,
    trade_balance, num_partners,
    \* app.py lines 350-377
    yearly_exports, yearly_imports, yearly_exports_cat, yearly_imports_cat,
    \* app.py lines 525-561 and 671-708
    selected_year, country_totals, top_exports,
    selected_year_imports, country_totals_imports, top_imports,
    \* data_loader.py: the two sources, the outcomes of the two loaders, and
    \* the product column padded once more
    trade_source, country_source, trade_result, country_result, repadded,
    \* app.py lines 175-201: the entries of the st.cache_data caches of the
    \* two loaders, the number of times each body has read its source, the
    \* number of the script run, and the values bound to df and country_df in
    \* this run
    cache, reads, runs, loaded_df, loaded_country_df,
    \* charts.py: the arguments of apply_chart_theme, the template and the
    \* layout it gives the figure
    theme, legend_position, x_tick_angle, y_axis_title, template, layout,
    \* app.py lines 474-487 and 621-634: the colour of each trace of the two
    \* time-series charts; lines 765-772: the data offered for download
    fig1_colors, fig3_colors, filtered_data,
    \* components/analytics.py: index.html, its backup and the number of
    \* calls of inject_simple_analytics
    index_html, bck_index, calls,
    \* index.html as it was before the first call (history)
    original_index

yoyVars == << current_value, previous_value, yoy >>
inputVars == << country_df, df, ticked, selected_years, region, subregion,
                intermediate_region, country >>
filterVars == << avail_subregions, avail_intermediate, avail_countries,
                 geo_filtered >>
flowVars == << selected_hs_codes, subregions, intermediate, countries,
               df_filtered, exports, imports >>
metricVars == << selected_metrics_year, total_exports, total_imports,
                 exports_prev_year, imports_prev_year, exports_change,
                 imports_change, trade_balance, num_partners >>
seriesVars == << yearly_exports, yearly_imports, yearly_exports_cat,
                 yearly_imports_cat >>
exportRankVars == << selected_year, country_totals, top_exports >>
importRankVars == << selected_year_imports, country_totals_imports,
                     top_imports >>
loadVars == << trade_source, country_source, trade_result, country_result,
              repadded >>
cacheVars == << cache, reads, runs, loaded_df, loaded_country_df >>
themeVars == << theme, legend_position, x_tick_angle, y_axis_title, template,
               layout >>
chartVars == << fig1_colors, fig3_colors, filtered_data >>
analyticsVars == << index_html, bck_index, calls, original_index >>
pageVars == << themeVars, chartVars, analyticsVars >>
vars == << pc, loadVars, cacheVars, yoyVars, inputVars, filterVars, flowVars,
           metricVars, seriesVars, exportRankVars, importRankVars, pageVars >>

(***************************************************************************)
(* Input tables.                                                           *)
(***************************************************************************)
\* a loaded trade record: load_trade_data attaches the category
TradeRow(y, p, e, i, q) ==
    [year |-> y, product |-> p, exporter_name |-> e, importer_name |-> i,
     quantity |-> q, category |-> HS_TO_CATEGORY(p)]

CountryNames == { "China", "USA" }

\* (region, subregion, intermediate_region) of a country row: region is always
\* present, the other two may be missing; the same subregion name may occur
\* under two regions
GeoPaths ==
    { << "Asia", "Eastern Asia", NaN >>,
      << "Asia", "Eastern Asia", "Caribbean" >>,
      << "Asia", NaN, NaN >>,
      << "Americas", "Eastern Asia", "Caribbean" >> }

\* the rows of a country table; the name may be missing
CountryRows ==
    { [name |-> n, region |-> g[1], subregion |-> g[2],
       intermediate_region |-> g[3]] :
      n \in CountryNames \cup {NaN}, g \in GeoPaths }

\* the arguments tried for region, subregion, intermediate_region, country
RegionArgs == { None, "Asia" }
SubregionArgs == { None, "Eastern Asia" }
IntermediateArgs == { None, "Caribbean" }
CountryArgs == { None, "China" }

\* the country table of tests/conftest.py (sample_country_data), without its
\* non-ASCII row
SampleCountries ==
    << [name |-> "China", region |-> "Asia", subregion |-> "Eastern Asia",
        intermediate_region |-> NaN],
       [name |-> "USA", region |-> "Americas",
        subregion |-> "Northern America", intermediate_region |-> NaN],
       [name |-> "Germany", region |-> "Europe",
        subregion |-> "Western Europe", intermediate_region |-> NaN],
       [name |-> "Brazil", region |-> "Americas",
        subregion |-> "South America", intermediate_region |-> NaN] >>

\* a trade table in which every flow between the country names occurs once
AllFlows ==
    << TradeRow(2020, "260700", "China", "China", Float(1)),
       TradeRow(2020, "260700", "China", "USA", Float(2)),
       TradeRow(2020, "260700", "USA", "China", Float(3)),
       TradeRow(2020, "260700", "USA", "USA", Float(4)) >>

\* the table handed to filter_by_geography: the country column is called
\* exporter_name there (tests/test_filters.py, sample_trade_df)
WithExporterName(cdf) ==
    [i \in 1..Len(cdf) |->
        [exporter_name |-> cdf[i].name, region |-> cdf[i].region,
         subregion |-> cdf[i].subregion,
         intermediate_region |-> cdf[i].intermediate_region]]

(***************************************************************************)
(* Initial states.  Every output is empty until its step has run.          *)
(***************************************************************************)
\* no source, nothing loaded, empty caches
NoSource == [state |-> "missing", columns |-> {}, rows |-> << >>]
NotCalled == [raised |-> FALSE, message |-> "", returned |-> << >>]
NotLoaded == [type |-> "unbound", table |-> << >>]

NoLoad ==
    /\ trade_source = NoSource /\ country_source = NoSource
    /\ trade_result = NotCalled /\ country_result = NotCalled
    /\ repadded = << >>

NoCache ==
    /\ cache = [trade |-> << >>, country |-> << >>]
    /\ reads = [trade |-> 0, country |-> 0]
    /\ runs = 0
    /\ loaded_df = NotLoaded /\ loaded_country_df = NotLoaded

\* no figure styled, no chart drawn, nothing offered for download
NoFile == [exists |-> FALSE, content |-> << >>]

NoTheme ==
    /\ theme = "dark" /\ legend_position = "bottom" /\ x_tick_angle = << >>
    /\ y_axis_title = None /\ template = "" /\ layout = << >>

NoCharts ==
    /\ fig1_colors = << >> /\ fig3_colors = << >> /\ filtered_data = << >>

NoAnalytics ==
    /\ index_html = << >> /\ bck_index = NoFile /\ calls = 0
    /\ original_index = << >>

NoPage == NoTheme /\ NoCharts /\ NoAnalytics

NoYoY ==
    /\ current_value = 0 /\ previous_value = 0 /\ yoy = Frac(0, 1)

NoOutputs ==
    /\ avail_subregions = << >> /\ avail_intermediate = << >>
    /\ avail_countries = << >> /\ geo_filtered = << >>
    /\ selected_hs_codes = << >> /\ subregions = << >>
    /\ intermediate = << >> /\ countries = << >>
    /\ df_filtered = << >> /\ exports = << >> /\ imports = << >>
    /\ selected_metrics_year = NaNf
    /\ total_exports = 0 /\ total_imports = 0
    /\ exports_prev_year = 0 /\ imports_prev_year = 0
    /\ exports_change = Frac(0, 1) /\ imports_change = Frac(0, 1)
    /\ trade_balance = 0 /\ num_partners = 0
    /\ yearly_exports = << >> /\ yearly_imports = << >>
    /\ yearly_exports_cat = << >> /\ yearly_imports_cat = << >>
    /\ selected_year = NaNf /\ country_totals = << >> /\ top_exports = << >>
    /\ selected_year_imports = NaNf /\ country_totals_imports = << >>
    /\ top_imports = << >>

\* no geographic choice made
NoGeoChoice ==
    /\ region = None /\ subregion = None /\ intermediate_region = None
    /\ country = None

\* calculate_yoy_change on every pair of bounded integers
InitYoY ==
    /\ pc = "start"
    /\ NoLoad /\ NoCache /\ NoPage
    /\ current_value \in -MaxValue..MaxValue
    /\ previous_value \in -MaxValue..MaxValue
    /\ yoy = Frac(0, 1)
    /\ country_df = << >> /\ df = << >>
    /\ ticked = {} /\ selected_years = << 0, 0 >>
    /\ NoGeoChoice /\ NoOutputs

\* every country table of bounded length, every argument combination, and a
\* trade table holding every flow
InitGeo ==
    /\ pc = "start"
    /\ NoLoad /\ NoCache /\ NoPage
    /\ NoYoY
    /\ country_df \in SeqsUpTo(CountryRows, MaxCountryRows)
    /\ df = AllFlows
    /\ ticked = Range(TaxonomyCodes)
    /\ selected_years = << 2020, 2020 >>
    /\ region \in RegionArgs
    /\ subregion \in SubregionArgs
    /\ intermediate_region \in IntermediateArgs
    /\ country \in CountryArgs
    /\ NoOutputs

\* Trade tables for the script.  Each family lets the columns one part of the
\* pipeline reads vary and holds the others fixed.
\* (a) years and products vary
YearProducts ==
    { << y, "260700" >> : y \in 2020..2022 } \cup { << 2021, "780110" >> }

TablesByYearProduct ==
    SeqsUpTo({ TradeRow(yp[1], yp[2], "China", "USA", Float(100)) :
                   yp \in YearProducts },
             MaxTradeRows)

\* (b) exporters and importers vary
TablesByFlow ==
    SeqsUpTo({ TradeRow(2020, "260700", e, i, Float(100)) :
                   e \in CountryNames, i \in CountryNames },
             MaxTradeRows)

\* (c) quantities, some missing, and years vary
TablesByQuantity ==
    SeqsUpTo({ TradeRow(y, "260700", "China", "USA", q) :
                   y \in 2020..2021, q \in { NaNf, Float(100), Float(200) } },
             MaxTradeRows)

\* (e) flows of several countries over two years: Germany trades in the
\* first year only, China exports 780110 in both
FlowsByYear ==
    << TradeRow(2020, "780110", "China", "USA", Float(1000)),
       TradeRow(2021, "780110", "China", "USA", Float(1200)),
       TradeRow(2020, "260700", "Germany", "Brazil", Float(100)),
       TradeRow(2021, "260700", "USA", "China", Float(50)),
       TradeRow(2020, "260700", "Germany", "USA", NaNf) >>

\* (d) one record of every product of the taxonomy
OneOfEachCode ==
    [i \in 1..Len(TaxonomyCodes) |->
        TradeRow(2020, TaxonomyCodes[i], "China", "USA", Float(100))]

\* the checkbox combinations tried: every other code is unticked
TickedChoices == SUBSET { "260700", "780110" }

YearRanges == { << lo, hi >> : lo \in 2020..2022, hi \in 2020..2022 }

\* Trade tables for the partner ranking: the flows of one country, China,
\* with its partners.
PartnerNames ==
    << "Argentina", "Australia", "Austria", "Belgium", "Brazil", "Canada",
       "Chile", "Denmark", "Egypt", "Finland", "France", "Germany", "Greece",
       "India", "Italy", "Japan", "Kenya", "Mexico", "Morocco", "Nepal",
       "Norway", "Peru", "Poland", "Qatar" >>

\* partners in the large tables
NPartners == 21
\* rows put in front of the large tables
MaxExtraRows == 2

\* a flow between China and a partner, as an export or as an import of China
Flow(direction, y, p, partner, q) ==
    IF direction = "exports" THEN TradeRow(y, p, "China", partner, q)
    ELSE TradeRow(y, p, partner, "China", q)

\* (d) few partners, the totals of the ranking example
TablesOfFewPartners ==
    SeqsUpTo({ Flow("exports", 2020, "260700", PartnerNames[i], q) :
                   i \in 1..3,
                   q \in { Float(300), Float(500), Float(1200) } },
             MaxTradeRows)

\* (e) more partners than the ranking keeps: in 2020 the first three partners
\* trade the totals of the ranking example, partner i after them trades
\* NPartners + 1 - i tons, and a few rows in front add to the partners around
\* the cut
ManyPartners(direction) ==
    [i \in 1..NPartners |->
        Flow(direction, 2020, "260700", PartnerNames[i],
             Float(IF i <= 3 THEN << 500, 1200, 300 >>[i]
                   ELSE NPartners + 1 - i))]

ExtraRows(direction) ==
    { Flow(direction, y, "780110", PartnerNames[i], q) :
          y \in 2020..2021, i \in (TopN - 1)..(TopN + 1),
          q \in { NaNf, Float(1) } }

TablesOfManyPartners ==
    UNION { { front \o ManyPartners(d) :
                front \in SeqsUpTo(ExtraRows(d), MaxExtraRows) } :
            d \in { "exports", "imports" } }

(***************************************************************************)
(* Actions: the calls of calculations.py and filters.py.                   *)
(***************************************************************************)
CalculateYoyChange ==
    /\ pc = "start"
    /\ yoy' = calculate_yoy_change(current_value, previous_value)
    /\ pc' = "returned"
    /\ UNCHANGED << pageVars, loadVars, cacheVars, current_value, previous_value, inputVars, filterVars,
                    flowVars, metricVars, seriesVars, exportRankVars,
                    importRankVars >>

GetAvailableSubregions ==
    /\ pc = "start"
    /\ avail_subregions' = get_available_subregions(country_df, region)
    /\ pc' = "subregions"
    /\ UNCHANGED << pageVars, loadVars, cacheVars, yoyVars, inputVars, avail_intermediate, avail_countries,
                    geo_filtered, flowVars, metricVars, seriesVars,
                    exportRankVars, importRankVars >>

GetAvailableIntermediateRegions ==
    /\ pc = "subregions"
    /\ avail_intermediate' =
           get_available_intermediate_regions(country_df, region, subregion)
    /\ pc' = "intermediate"
    /\ UNCHANGED << pageVars, loadVars, cacheVars, yoyVars, inputVars, avail_subregions, avail_countries,
                    geo_filtered, flowVars, metricVars, seriesVars,
                    exportRankVars, importRankVars >>

GetAvailableCountries ==
    /\ pc = "intermediate"
    /\ avail_countries' =
           get_available_countries(country_df, region, subregion,
                                   intermediate_region)
    /\ pc' = "countries"
    /\ UNCHANGED << pageVars, loadVars, cacheVars, yoyVars, inputVars, avail_subregions, avail_intermediate,
                    geo_filtered, flowVars, metricVars, seriesVars,
                    exportRankVars, importRankVars >>

\* a variant of the call that narrows the table it was given in place
FilterByGeography_inPlace ==
    /\ pc = "countries"
    /\ geo_filtered' =
           filter_by_geography(WithExporterName(country_df), region,
                               subregion, intermediate_region, country)
    /\ country_df' =
           [i \in 1..Len(geo_filtered') |->
               [name |-> geo_filtered'[i].exporter_name,
                region |-> geo_filtered'[i].region,
                subregion |-> geo_filtered'[i].subregion,
                intermediate_region |-> geo_filtered'[i].intermediate_region]]
    /\ pc' = "geography"
    /\ UNCHANGED << pageVars, loadVars, cacheVars, yoyVars, df, ticked,
                    selected_years, region, subregion, intermediate_region,
                    country, avail_subregions, avail_intermediate,
                    avail_countries, flowVars, metricVars, seriesVars,
                    exportRankVars, importRankVars >>

FilterByGeography ==
    /\ pc = "countries"
    /\ geo_filtered' =
           filter_by_geography(WithExporterName(country_df), region,
                               subregion, intermediate_region, country)
    /\ pc' = "geography"
    /\ UNCHANGED << pageVars, loadVars, cacheVars, yoyVars, inputVars, avail_subregions, avail_intermediate,
                    avail_countries, flowVars, metricVars, seriesVars,
                    exportRankVars, importRankVars >>

(***************************************************************************)
(* Actions: one run of the script app.py, section by section.              *)
(***************************************************************************)
\* Series.min() and Series.max() of the year column of a table with rows
MinYearOf(rows) ==
    CHOOSE y \in { rows[i].year : i \in 1..Len(rows) } :
        \A i \in 1..Len(rows) : y <= rows[i].year

MaxYearOf(rows) ==
    CHOOSE y \in { rows[i].year : i \in 1..Len(rows) } :
        \A i \in 1..Len(rows) : rows[i].year <= y

\* what the widgets can return for the tables loaded: the slider stays inside
\* the years of the data (int(df['year'].min()) fails on an empty table), a
\* selectbox returns None or one of its options
WidgetsValid ==
    /\ df # << >>
    /\ ticked \subseteq Range(TaxonomyCodes)
    /\ MinYearOf(df) <= selected_years[1]
    /\ selected_years[1] <= selected_years[2]
    /\ selected_years[2] <= MaxYearOf(df)
    /\ region \in Range(Regions(country_df)) \cup {None}
    /\ subregion \in Range(AppSubregions(country_df, region)) \cup {None}
    /\ intermediate_region \in
           Range(AppIntermediate(country_df, region, subregion)) \cup {None}
    /\ country \in
           Range(AppCountries(country_df, region, subregion,
                              intermediate_region)) \cup {None}

\* lines 203-278, entered from the position `from`
SelectAndFilter(from) ==
    /\ pc = from
    /\ WidgetsValid
    /\ selected_hs_codes' = SelectedHsCodes(ticked)
    /\ subregions' = AppSubregions(country_df, region)
    /\ intermediate' = AppIntermediate(country_df, region, subregion)
    /\ countries' = AppCountries(country_df, region, subregion,
                                 intermediate_region)
    /\ df_filtered' = DfFiltered(df, selected_hs_codes', selected_years)
    /\ exports' = Exports(df_filtered', country, countries')
    /\ imports' = Imports(df_filtered', country, countries')
    /\ pc' = "flows"
    /\ UNCHANGED << pageVars, loadVars, cacheVars, yoyVars, inputVars, filterVars, metricVars, seriesVars,
                    exportRankVars, importRankVars >>

NextYoY == CalculateYoyChange

SpecYoY == InitYoY /\ [][NextYoY]_vars

\* lines 288-341
KeyMetrics ==
    /\ pc = "flows"
    /\ selected_metrics_year' = MetricsYear(df_filtered, exports, imports)
    /\ LET exports_year == RowsOfYear(exports, selected_metrics_year')
           imports_year == RowsOfYear(imports, selected_metrics_year')
           previous_year == PreviousYear(selected_metrics_year')
       IN  /\ total_exports' = SumQuantity(Quantity(exports_year))
           /\ exports_prev_year' =
                  SumQuantity(Quantity(RowsOfYear(exports, previous_year)))
           /\ exports_change' =
                  calculate_yoy_change(total_exports', exports_prev_year')
           /\ total_imports' = SumQuantity(Quantity(imports_year))
           /\ imports_prev_year' =
                  SumQuantity(Quantity(RowsOfYear(imports, previous_year)))
           /\ imports_change' =
                  calculate_yoy_change(total_imports', imports_prev_year')
           /\ trade_balance' = TradeBalance(total_exports', total_imports')
           /\ num_partners' = NumPartners(exports_year, imports_year)
    /\ pc' = "metrics"
    /\ UNCHANGED << pageVars, loadVars, cacheVars, yoyVars, inputVars, filterVars, flowVars, seriesVars,
                    exportRankVars, importRankVars >>

\* lines 343-377
TimeSeries ==
    /\ pc = "metrics"
    /\ yearly_exports' = YearlyByProduct(exports)
    /\ yearly_imports' = YearlyByProduct(imports)
    /\ yearly_imports_cat' = YearlyByCategory(yearly_imports')
    /\ yearly_exports_cat' = YearlyByCategory(yearly_exports')
    /\ pc' = "series"
    /\ UNCHANGED << pageVars, loadVars, cacheVars, yoyVars, inputVars, filterVars, flowVars, metricVars,
                    exportRankVars, importRankVars >>

\* lines 765-772
DownloadData ==
    /\ pc = "series"
    /\ filtered_data' = FilteredData(df_filtered, country, countries)
    /\ pc' = "download"
    /\ UNCHANGED << themeVars, fig1_colors, fig3_colors, analyticsVars,
                    loadVars, cacheVars, yoyVars, inputVars, filterVars,
                    flowVars, metricVars, seriesVars, exportRankVars,
                    importRankVars >>

\* filters.py on a country table, then the script on the same table
NextGeo ==
    \/ GetAvailableSubregions
    \/ GetAvailableIntermediateRegions
    \/ GetAvailableCountries
    \/ FilterByGeography
    \/ SelectAndFilter("geography")
    \/ KeyMetrics
    \/ TimeSeries
    \/ DownloadData

SpecGeo == InitGeo /\ [][NextGeo]_vars

\* lines 474-487 and 621-634: the exports and the imports time-series chart
TimeSeriesCharts ==
    /\ pc = "series"
    /\ fig1_colors' = BarColors(yearly_exports, ColorSequence(selected_hs_codes))
    /\ fig3_colors' = BarColors(yearly_imports, ColorSequence(selected_hs_codes))
    /\ pc' = "charts"
    /\ UNCHANGED << themeVars, filtered_data, analyticsVars, loadVars,
                    cacheVars, yoyVars, inputVars, filterVars, flowVars,
                    metricVars, seriesVars, exportRankVars, importRankVars >>

\* the script on trade tables of the four families, with the country table of
\* the test fixtures and every choice the widgets then allow
InitAgg ==
    /\ pc = "start"
    /\ NoLoad /\ NoCache /\ NoPage
    /\ NoYoY
    /\ country_df = SampleCountries
    /\ \/ /\ df \in TablesByYearProduct
          /\ ticked \in TickedChoices
          /\ selected_years \in YearRanges
          /\ NoGeoChoice
       \/ /\ df \in TablesByFlow
          /\ ticked = Range(TaxonomyCodes)
          /\ selected_years = << 2020, 2020 >>
          /\ region \in Range(Regions(country_df)) \cup {None}
          /\ subregion \in
                 Range(AppSubregions(country_df, region)) \cup {None}
          /\ intermediate_region = None
          /\ country \in
                 Range(AppCountries(country_df, region, subregion,
                                    intermediate_region)) \cup {None}
       \/ /\ df \in TablesByQuantity
          /\ ticked = Range(TaxonomyCodes)
          /\ selected_years \in YearRanges
          /\ region = None /\ subregion = None /\ intermediate_region = None
          /\ country \in { None, "China" }
       \/ /\ df = OneOfEachCode
          /\ ticked \in SUBSET Range(TaxonomyCodes)
          /\ selected_years = << 2020, 2020 >>
          /\ NoGeoChoice
       \/ /\ df = FlowsByYear
          /\ ticked \in { Range(TaxonomyCodes), { "780110" } }
          /\ selected_years \in YearRanges
          /\ region \in Range(Regions(country_df)) \cup {None}
          /\ subregion = None /\ intermediate_region = None
          /\ country \in
                 Range(AppCountries(country_df, region, subregion,
                                    intermediate_region)) \cup {None}
    /\ WidgetsValid
    /\ NoOutputs

NextAgg ==
    \/ SelectAndFilter("start")
    \/ KeyMetrics
    \/ TimeSeries
    \/ TimeSeriesCharts

SpecAgg == InitAgg /\ [][NextAgg]_vars

\* lines 525-561, reached when the charts above were drawn: line 442 reads
\* cat_df, which exists only if one of the loops of lines 389-406 ran
TopExportDestinations ==
    /\ pc = "series"
    /\ yearly_exports_cat # << >> \/ yearly_imports_cat # << >>
    /\ \E y \in IF exports = << >> THEN { NaNf }
                ELSE { Float(a) : a \in Range(AvailableYears(exports)) } :
          /\ selected_year' = y
          /\ \E ct \in SortValuesHead(
                           Range(ExportTotals(RowsOfYear(exports, y))), TopN) :
                /\ country_totals' = ct
                /\ top_exports' = TopExports(RowsOfYear(exports, y), ct)
    /\ pc' = "top_exports"
    /\ UNCHANGED << pageVars, loadVars, cacheVars, yoyVars, inputVars, filterVars, flowVars, metricVars,
                    seriesVars, importRankVars >>

\* lines 671-708
TopImportSources ==
    /\ pc = "top_exports"
    /\ \E y \in IF imports = << >> THEN { NaNf }
                ELSE { Float(a) : a \in Range(AvailableYears(imports)) } :
          /\ selected_year_imports' = y
          /\ \E ct \in SortValuesHead(
                           Range(ImportTotals(RowsOfYear(imports, y))), TopN) :
                /\ country_totals_imports' = ct
                /\ top_imports' = TopImports(RowsOfYear(imports, y), ct)
    /\ pc' = "top_imports"
    /\ UNCHANGED << pageVars, loadVars, cacheVars, yoyVars, inputVars, filterVars, flowVars, metricVars,
                    seriesVars, exportRankVars >>

\* the script on the tables of the two ranking families, China chosen as the
\* country, every product ticked and the slider on the whole range
InitRank ==
    /\ pc = "start"
    /\ NoLoad /\ NoCache /\ NoPage
    /\ NoYoY
    /\ country_df = SampleCountries
    /\ df \in (TablesOfFewPartners \ { << >> }) \cup TablesOfManyPartners
    /\ ticked = Range(TaxonomyCodes)
    /\ selected_years = << MinYearOf(df), MaxYearOf(df) >>
    /\ region = None /\ subregion = None /\ intermediate_region = None
    /\ country = "China"
    /\ NoOutputs

NextRank ==
    \/ SelectAndFilter("start")
    \/ KeyMetrics
    \/ TimeSeries
    \/ TopExportDestinations
    \/ TopImportSources

SpecRank == InitRank /\ [][NextRank]_vars

(***************************************************************************)
(* The loaders of data_loader.py on the sources of a bounded universe.     *)
(***************************************************************************)
\* rows of a source table
MaxRawRows == 2

TradeColumns ==
    { "year", "product", "exporter_name", "importer_name", "quantity" }

RawRow(product, e, i) ==
    [year |-> 2020, product |-> product, exporter_name |-> e,
     importer_name |-> i, quantity |-> Float(100)]

Table(columns, rows) == [state |-> "table", columns |-> columns, rows |-> rows]
NoTable(state) == [state |-> state, columns |-> {}, rows |-> << >>]

\* product values: the codes of the taxonomy, a code that lost its leading
\* zeros, a value of seven digits, strs, a float and a missing value
RawProducts ==
    { Int64(n) : n \in { 7801, 260700, 780110, 780191, 780199, 850710,
                         850720, 854810, 780200, 1234567 } }
    \cup { Object("7801"), Object("260700"), Float64(260700), MissingProduct }

\* names: the corrupted name alone and inside a longer name, the repaired
\* name, other names and a missing name
RawExporters == { Corrupted, Repaired, "China", "Rep. of " \o Corrupted, NaN }
RawImporters == { Corrupted, "USA", Corrupted \o " (Asia)" }

TradeSources ==
    { NoTable(st) : st \in { "missing", "unreadable", "malformed" } }
    \cup { Table(TradeColumns, rows) :
             rows \in SeqsUpTo({ RawRow(p, "China", "USA") : p \in RawProducts },
                               MaxRawRows) }
    \cup { Table(TradeColumns, rows) :
             rows \in SeqsUpTo({ RawRow(Int64(260700), e, i) :
                                     e \in RawExporters, i \in RawImporters },
                               MaxRawRows) }
    \cup { Table(TradeColumns \ { c },
                 << RawRow(Int64(7801), Corrupted, "USA") >>) :
             c \in TradeColumns }

CountrySources ==
    { NoTable(st) : st \in { "missing", "unreadable", "malformed" } }
    \cup { Table({ "name", "region", "subregion", "intermediate_region" },
                 rows) : rows \in { << >>, SampleCountries } }

InitLoad ==
    /\ pc = "start"
    /\ \/ /\ trade_source \in TradeSources
          /\ country_source =
                 Table({ "name", "region", "subregion", "intermediate_region" },
                       SampleCountries)
       \/ /\ trade_source \in
                 { NoTable("missing"),
                   Table(TradeColumns \ { "product" },
                         << RawRow(Int64(7801), Corrupted, "USA") >>) }
          /\ country_source \in CountrySources
    /\ trade_result = NotCalled /\ country_result = NotCalled
    /\ repadded = << >>
    /\ NoCache /\ NoYoY /\ NoPage
    /\ country_df = << >> /\ df = << >>
    /\ ticked = {} /\ selected_years = << 0, 0 >>
    /\ NoGeoChoice /\ NoOutputs

LoadTradeData ==
    /\ pc = "start"
    /\ trade_result' = load_trade_data(trade_source)
    /\ pc' = "trade_loaded"
    /\ UNCHANGED << pageVars, trade_source, country_source, country_result, repadded,
                    cacheVars, yoyVars, inputVars, filterVars, flowVars,
                    metricVars, seriesVars, exportRankVars, importRankVars >>

LoadCountryData ==
    /\ pc = "trade_loaded"
    /\ country_result' = load_country_data(country_source)
    /\ pc' = "country_loaded"
    /\ UNCHANGED << pageVars, trade_source, country_source, trade_result, repadded,
                    cacheVars, yoyVars, inputVars, filterVars, flowVars,
                    metricVars, seriesVars, exportRankVars, importRankVars >>

\* the padding of lines 33-34 applied to the table load_trade_data returned
PadProductCodes ==
    /\ pc = "country_loaded"
    /\ ~ trade_result.raised
    /\ repadded' = PadAgain(trade_result.returned[1])
    /\ pc' = "padded"
    /\ UNCHANGED << pageVars, trade_source, country_source, trade_result,
                    country_result, cacheVars, yoyVars, inputVars, filterVars,
                    flowVars, metricVars, seriesVars, exportRankVars,
                    importRankVars >>

\* the country filters on the loaded table, for the repaired name: the
\* exporters with filter_by_geography, the importers as app.py line 275
FilterLoaded ==
    /\ pc = "padded"
    /\ geo_filtered' =
           filter_by_geography(trade_result.returned[1], None, None, None,
                               Repaired)
    /\ imports' = Imports(trade_result.returned[1], Repaired, << >>)
    /\ pc' = "filtered"
    /\ UNCHANGED << pageVars, loadVars, cacheVars, yoyVars, inputVars, avail_subregions,
                    avail_intermediate, avail_countries, selected_hs_codes,
                    subregions, intermediate, countries, df_filtered, exports,
                    metricVars, seriesVars, exportRankVars, importRankVars >>

\* the body of the loader of app.py (lines 176-186) on the same source
AppLoadSameSource ==
    /\ pc = "country_loaded"
    /\ loaded_df' = app_load_trade_data(trade_source)
    /\ pc' = "both_loaded"
    /\ UNCHANGED << pageVars, loadVars, cache, reads, runs, loaded_country_df,
                    yoyVars, inputVars, filterVars, flowVars, metricVars,
                    seriesVars, exportRankVars, importRankVars >>

NextLoad ==
    \/ LoadTradeData
    \/ LoadCountryData
    \/ PadProductCodes
    \/ FilterLoaded
    \/ AppLoadSameSource

SpecLoad == InitLoad /\ [][NextLoad]_vars

(***************************************************************************)
(* The script app.py run again and again in one server process: the two    *)
(* cached loaders, the stop, the sidebar, the selectors and the first      *)
(* sections of the page.  Between two runs the files may change on disk.   *)
(***************************************************************************)
\* runs of the script
MaxRuns == 2

AppTradeSources ==
    { NoTable("missing"), NoTable("malformed"),
      Table(TradeColumns \ { "product" },
            << RawRow(Int64(7801), "China", "USA") >>),
      Table(TradeColumns, << >>),
      Table(TradeColumns, << RawRow(Int64(260700), "China", "USA") >>),
      Table(TradeColumns, << RawRow(Int64(7801), "USA", "China"),
                             RawRow(Int64(260700), "China", "USA") >>) }

InitApp ==
    /\ pc = "start"
    /\ trade_source \in AppTradeSources
    /\ country_source \in CountrySources
    /\ trade_result = NotCalled /\ country_result = NotCalled
    /\ repadded = << >>
    /\ NoCache /\ NoYoY /\ NoPage
    /\ country_df = << >> /\ df = << >>
    /\ ticked = Range(TaxonomyCodes) /\ selected_years = << 0, 0 >>
    /\ NoGeoChoice /\ NoOutputs

\* line 198: the cached value if there is one, else the body
AppLoadTradeData ==
    /\ pc = "start"
    /\ runs' = runs + 1
    /\ IF cache.trade # << >>
       THEN /\ loaded_df' = cache.trade[1]
            /\ UNCHANGED << cache, reads >>
       ELSE LET value == app_load_trade_data(trade_source)
            IN  /\ loaded_df' = value
                /\ cache' = [cache EXCEPT !.trade = CacheStore(value)]
                /\ reads' = [reads EXCEPT !.trade = @ + 1]
    /\ df' = loaded_df'.table
    /\ pc' = "trade_bound"
    /\ UNCHANGED << pageVars, loadVars, loaded_country_df, yoyVars, country_df, ticked,
                    selected_years, region, subregion, intermediate_region,
                    country, filterVars, flowVars, metricVars, seriesVars,
                    exportRankVars, importRankVars >>

\* line 199
AppLoadCountryData ==
    /\ pc = "trade_bound"
    /\ IF cache.country # << >>
       THEN /\ loaded_country_df' = cache.country[1]
            /\ UNCHANGED << cache, reads >>
       ELSE LET value == app_load_country_data(country_source)
            IN  /\ loaded_country_df' = value
                /\ cache' = [cache EXCEPT !.country = CacheStore(value)]
                /\ reads' = [reads EXCEPT !.country = @ + 1]
    /\ country_df' = loaded_country_df'.table
    /\ pc' = "loaded"
    /\ UNCHANGED << pageVars, loadVars, runs, loaded_df, yoyVars, df, ticked,
                    selected_years, region, subregion, intermediate_region,
                    country, filterVars, flowVars, metricVars, seriesVars,
                    exportRankVars, importRankVars >>

\* lines 200-201
StopIfNone ==
    /\ pc = "loaded"
    /\ pc' = IF IsNone(loaded_df) \/ IsNone(loaded_country_df)
             THEN "stopped" ELSE "sidebar"
    /\ UNCHANGED << pageVars, loadVars, cacheVars, yoyVars, inputVars, filterVars,
                    flowVars, metricVars, seriesVars, exportRankVars,
                    importRankVars >>

\* lines 203-235 with the widgets untouched: every box ticked, the slider on
\* the whole range; int(df['year'].min()) raises on a table with no rows
Sidebar ==
    /\ pc = "sidebar"
    /\ selected_hs_codes' = SelectedHsCodes(ticked)
    /\ IF df = << >>
       THEN pc' = "error" /\ UNCHANGED selected_years
       ELSE /\ selected_years' = << MinYearOf(df), MaxYearOf(df) >>
            /\ pc' = "selectors"
    /\ UNCHANGED << pageVars, loadVars, cacheVars, yoyVars, country_df, df, ticked,
                    region, subregion, intermediate_region, country,
                    filterVars, subregions, intermediate, countries,
                    df_filtered, exports, imports, metricVars, seriesVars,
                    exportRankVars, importRankVars >>

\* lines 237-278 with no selectbox used; country_df.region of line 241 raises
\* when country_df is not a DataFrame
SelectorsAndFlows ==
    /\ pc = "selectors"
    /\ IF loaded_country_df.type # "DataFrame"
       THEN /\ pc' = "error"
            /\ UNCHANGED << subregions, intermediate, countries, df_filtered,
                            exports, imports >>
       ELSE /\ subregions' = AppSubregions(country_df, region)
            /\ intermediate' = AppIntermediate(country_df, region, subregion)
            /\ countries' = AppCountries(country_df, region, subregion,
                                         intermediate_region)
            /\ df_filtered' = DfFiltered(df, selected_hs_codes, selected_years)
            /\ exports' = Exports(df_filtered', country, countries')
            /\ imports' = Imports(df_filtered', country, countries')
            /\ pc' = "flows"
    /\ UNCHANGED << pageVars, loadVars, cacheVars, yoyVars, inputVars, filterVars,
                    selected_hs_codes, metricVars, seriesVars, exportRankVars,
                    importRankVars >>

\* the next run of the script, started by a widget or a new session after the
\* run before it has ended: the names of the script are unbound again, the
\* caches and the counters stay, the files may have changed
Rerun ==
    /\ pc \in { "stopped", "error", "series" }
    /\ runs < MaxRuns
    /\ trade_source' \in AppTradeSources
    /\ country_source' \in CountrySources
    /\ country_df' = << >> /\ df' = << >>
    /\ selected_years' = << 0, 0 >>
    /\ selected_hs_codes' = << >> /\ subregions' = << >>
    /\ intermediate' = << >> /\ countries' = << >>
    /\ df_filtered' = << >> /\ exports' = << >> /\ imports' = << >>
    /\ selected_metrics_year' = NaNf
    /\ total_exports' = 0 /\ total_imports' = 0
    /\ exports_prev_year' = 0 /\ imports_prev_year' = 0
    /\ exports_change' = Frac(0, 1) /\ imports_change' = Frac(0, 1)
    /\ trade_balance' = 0 /\ num_partners' = 0
    /\ yearly_exports' = << >> /\ yearly_imports' = << >>
    /\ yearly_exports_cat' = << >> /\ yearly_imports_cat' = << >>
    /\ pc' = "start"
    /\ UNCHANGED << pageVars, trade_result, country_result, repadded, cacheVars,
                    yoyVars, ticked, region, subregion, intermediate_region,
                    country, filterVars, exportRankVars, importRankVars >>

NextApp ==
    \/ AppLoadTradeData
    \/ AppLoadCountryData
    \/ StopIfNone
    \/ Sidebar
    \/ SelectorsAndFlows
    \/ KeyMetrics
    \/ TimeSeries
    \/ Rerun

SpecApp == InitApp /\ [][NextApp]_vars

(***************************************************************************)
(* The functions of charts.py on every theme value and on the other        *)
(* arguments of apply_chart_theme.                                         *)
(***************************************************************************)
\* theme values: the two documented ones, and others a caller can pass
Themes == { "light", "dark", "Light", "LIGHT", "", "auto", None }
LegendPositions == { "bottom", "top", "none" }
TickAngles == { << >>, << 0 >>, << 30 >> }
AxisTitles == { None, "", "Volume (tons)" }

InitTheme ==
    /\ pc = "start"
    /\ theme \in Themes
    /\ legend_position \in LegendPositions
    /\ x_tick_angle \in TickAngles
    /\ y_axis_title \in AxisTitles
    /\ template = "" /\ layout = << >>
    /\ NoCharts /\ NoAnalytics
    /\ NoLoad /\ NoCache /\ NoYoY
    /\ country_df = << >> /\ df = << >>
    /\ ticked = {} /\ selected_years = << 0, 0 >>
    /\ NoGeoChoice /\ NoOutputs

GetPlotlyTemplate ==
    /\ pc = "start"
    /\ template' = get_plotly_template(theme)
    /\ pc' = "template"
    /\ UNCHANGED << theme, legend_position, x_tick_angle, y_axis_title,
                    layout, chartVars, analyticsVars, loadVars, cacheVars,
                    yoyVars, inputVars, filterVars, flowVars, metricVars,
                    seriesVars, exportRankVars, importRankVars >>

ApplyChartTheme ==
    /\ pc = "template"
    /\ layout' = << apply_chart_theme(theme, legend_position, y_axis_title,
                                      x_tick_angle) >>
    /\ pc' = "styled"
    /\ UNCHANGED << theme, legend_position, x_tick_angle, y_axis_title,
                    template, chartVars, analyticsVars, loadVars, cacheVars,
                    yoyVars, inputVars, filterVars, flowVars, metricVars,
                    seriesVars, exportRankVars, importRankVars >>

NextTheme ==
    \/ GetPlotlyTemplate
    \/ ApplyChartTheme

SpecTheme == InitTheme /\ [][NextTheme]_vars

(***************************************************************************)
(* inject_simple_analytics called again and again on an index.html.        *)
(***************************************************************************)
\* tags of index.html, calls of inject_simple_analytics
MaxHtmlTags == 3
MaxCalls == 3

HtmlTags == { "<head>", "</head>", "<title>", "<body>" }

\* index.html as Streamlit ships it
ShippedIndex == << "<head>", "<title>", "</head>", "<body>" >>

InitAnalytics ==
    /\ pc = "start"
    /\ index_html \in SeqsUpTo(HtmlTags, MaxHtmlTags) \cup { ShippedIndex }
    /\ original_index = index_html
    /\ bck_index = NoFile /\ calls = 0
    /\ NoTheme /\ NoCharts
    /\ NoLoad /\ NoCache /\ NoYoY
    /\ country_df = << >> /\ df = << >>
    /\ ticked = {} /\ selected_years = << 0, 0 >>
    /\ NoGeoChoice /\ NoOutputs

InjectSimpleAnalytics ==
    /\ calls < MaxCalls
    /\ LET files == inject_simple_analytics(index_html, bck_index)
       IN  /\ index_html' = files.index
           /\ bck_index' = files.bck
    /\ calls' = calls + 1
    /\ pc' = "injected"
    /\ UNCHANGED << original_index, themeVars, chartVars, loadVars,
                    cacheVars, yoyVars, inputVars, filterVars, flowVars,
                    metricVars, seriesVars, exportRankVars, importRankVars >>

NextAnalytics == InjectSimpleAnalytics

SpecAnalytics == InitAnalytics /\ [][NextAnalytics]_vars

(***************************************************************************)
(* Properties.                                                             *)
(***************************************************************************)
\* how often a row occurs in a table
Count(r, rows) == Cardinality({ i \in 1..Len(rows) : rows[i] = r })

\* sub holds exactly the rows of rows that satisfy keep, each as often as rows
\* does: the characteristic function of the rows kept
KeptRows(rows, keep) == [r \in Range(rows) |-> IF keep[r] THEN Count(r, rows) ELSE 0]

ExactlyKept(sub, rows, keep) ==
    /\ Range(sub) \subseteq Range(rows)
    /\ \A r \in Range(rows) : Count(r, sub) = KeptRows(rows, keep)[r]

\* C1: calculate_yoy_change(current, previous) is
\* (current - previous) / previous * 100 when previous # 0, stated without
\* division as result * previous = (current - previous) * 100, and is 0 for
\* every current when previous = 0.
C1_YoyChange ==
    pc = "returned" =>
        /\ yoy.den > 0
        /\ previous_value # 0 =>
               yoy.num * previous_value
                   = (current_value - previous_value) * 100 * yoy.den
        /\ previous_value = 0 => yoy.num = 0

\* the example of the specification, scaled: from 5 to 6 is a change of 20%
C1_Witness ==
    /\ pc = "returned" /\ current_value = 6 /\ previous_value = 5
    /\ yoy = [num |-> 20, den |-> 1]

\* C2: the filtered table holds exactly the records whose product code is a
\* selected code and whose year lies in [min_year, max_year], both bounds
\* included; no other record is kept, no such record is dropped.
C2_FilterExact ==
    pc # "start" =>
        ExactlyKept(df_filtered, df,
            [r \in Range(df) |->
                /\ r.product \in Range(selected_hs_codes)
                /\ selected_years[1] <= r.year
                /\ r.year <= selected_years[2]])

\* a record of the first year and one of the last year of a range of two
\* years or more are both kept, and some record is dropped
C2_Witness ==
    /\ pc = "flows"
    /\ selected_years[1] < selected_years[2]
    /\ \E i \in 1..Len(df_filtered) : df_filtered[i].year = selected_years[1]
    /\ \E i \in 1..Len(df_filtered) : df_filtered[i].year = selected_years[2]
    /\ Len(df_filtered) < Len(df)

\* the country set the geographic selection resolves to: the chosen country
\* alone, else every country name of the rows that match every chosen ancestor
ResolvedCountries ==
    IF country # None THEN { country }
    ELSE { country_df[i].name :
             i \in { j \in 1..Len(country_df) :
                       /\ country_df[j].name # NaN
                       /\ region # None => country_df[j].region = region
                       /\ subregion # None =>
                              country_df[j].subregion = subregion
                       /\ intermediate_region # None =>
                              country_df[j].intermediate_region
                                  = intermediate_region } }

\* C3: exports is exactly the filtered records whose exporter is in the
\* resolved country set, imports exactly those whose importer is; a record
\* whose exporter and importer are both in the set is in both.
C3_FlowsExact ==
    pc # "start" =>
        /\ ExactlyKept(exports, df_filtered,
               [r \in Range(df_filtered) |->
                   r.exporter_name \in ResolvedCountries])
        /\ ExactlyKept(imports, df_filtered,
               [r \in Range(df_filtered) |->
                   r.importer_name \in ResolvedCountries])
        /\ \A r \in Range(df_filtered) :
               r.exporter_name \in ResolvedCountries
               /\ r.importer_name \in ResolvedCountries
               => r \in Range(exports) /\ r \in Range(imports)

\* a region is chosen and no country; one record is in both flows, another in
\* the exports only, a third in neither
C3_Witness ==
    /\ pc = "flows" /\ region # None /\ country = None
    /\ \E r \in Range(exports) : r \in Range(imports)
    /\ \E r \in Range(exports) : r \notin Range(imports)
    /\ \E r \in Range(df_filtered) :
           r \notin Range(exports) /\ r \notin Range(imports)

\* a row of the country table matches the ancestors given (None: not given)
AncestorsMatch(row, r, s, ir) ==
    /\ r # None => row.region = r
    /\ s # None => row.subregion = s
    /\ ir # None => row.intermediate_region = ir

\* the values present in a column of the rows that match the ancestors given
ValuesMatching(column, r, s, ir) ==
    { row[column] :
        row \in { x \in Range(country_df) :
                    x[column] # NaN /\ AncestorsMatch(x, r, s, ir) } }

StrictlyAscending(s) == \A i \in 1..(Len(s) - 1) : StrLess(s[i], s[i + 1])

SubregionsListed == pc # "start"
IntermediateListed == pc \notin { "start", "subregions" }
CountriesListed == pc \notin { "start", "subregions", "intermediate" }
GeographyFiltered == pc \in { "geography", "flows" }

\* C4: get_available_countries narrows monotonically: the list for
\* (region, subregion, intermediate_region) is contained in the list for
\* (region, subregion), that in the list for (region), and that in the list
\* without a filter; adding a filter never adds a country.
C4_CountriesMonotone ==
    CountriesListed =>
        /\ Range(avail_countries) \subseteq
               Range(get_available_countries(country_df, region, subregion,
                                             None))
        /\ Range(get_available_countries(country_df, region, subregion, None))
               \subseteq
               Range(get_available_countries(country_df, region, None, None))
        /\ Range(get_available_countries(country_df, region, None, None))
               \subseteq
               Range(get_available_countries(country_df, None, None, None))

\* the subregion filter removes a country that the region alone lists
C4_Witness ==
    /\ pc = "countries" /\ region # None /\ subregion # None
    /\ avail_countries # << >>
    /\ \E c \in Range(get_available_countries(country_df, region, None, None)) :
           c \notin Range(avail_countries)

\* C5: with a country given, filter_by_geography returns exactly the rows
\* whose exporter_name is that country, whatever region, subregion and
\* intermediate region are also given, and the exports and imports of the app
\* are exactly the records whose exporter, respectively importer, is that
\* country.
C5_CountryWins ==
    /\ GeographyFiltered /\ country # None =>
           ExactlyKept(geo_filtered, WithExporterName(country_df),
               [r \in Range(WithExporterName(country_df)) |->
                   r.exporter_name = country])
    /\ pc = "flows" /\ country # None =>
           /\ ExactlyKept(exports, df_filtered,
                  [r \in Range(df_filtered) |-> r.exporter_name = country])
           /\ ExactlyKept(imports, df_filtered,
                  [r \in Range(df_filtered) |-> r.importer_name = country])

\* a country and a region are given, the country table lists the country in
\* another region too, and both rows are returned
C5_Witness ==
    /\ pc = "flows" /\ country # None /\ region # None
    /\ \E r \in Range(geo_filtered) : r.region # region
    /\ \E r \in Range(geo_filtered) : r.region = region
    /\ exports # << >> /\ Len(exports) < Len(df_filtered)

\* C6: the results of get_available_subregions,
\* get_available_intermediate_regions and get_available_countries are
\* strictly ascending (sorted, no duplicates) and hold exactly the values
\* present in the target column of the rows that match every ancestor given.
C6_ListingsSortedExact ==
    /\ SubregionsListed =>
           /\ StrictlyAscending(avail_subregions)
           /\ Range(avail_subregions)
                  = ValuesMatching("subregion", region, None, None)
    /\ IntermediateListed =>
           /\ StrictlyAscending(avail_intermediate)
           /\ Range(avail_intermediate)
                  = ValuesMatching("intermediate_region", region, subregion,
                                   None)
    /\ CountriesListed =>
           /\ StrictlyAscending(avail_countries)
           /\ Range(avail_countries)
                  = ValuesMatching("name", region, subregion,
                                   intermediate_region)

\* the table lists USA before China, two rows share a subregion and one row
\* has no intermediate region: the lists are sorted, without the repetition
\* and without the absent value
C6_Witness ==
    /\ pc = "countries" /\ region # None
    /\ Len(country_df) = 2
    /\ country_df[1].name = "USA" /\ country_df[2].name = "China"
    /\ country_df[1].subregion = country_df[2].subregion
    /\ country_df[1].intermediate_region = NaN
    /\ avail_countries = << "China", "USA" >>
    /\ Len(avail_subregions) = 1
    /\ Len(avail_intermediate) = 1

\* C7: a geographic selection that matches nothing gives an empty result and
\* is not widened: the listing functions return the empty list,
\* filter_by_geography the empty table, and the app zero export and import
\* records.
C7_EmptyNotWidened ==
    /\ SubregionsListed /\ ValuesMatching("subregion", region, None, None) = {}
           => avail_subregions = << >>
    /\ IntermediateListed
       /\ ValuesMatching("intermediate_region", region, subregion, None) = {}
           => avail_intermediate = << >>
    /\ CountriesListed
       /\ ValuesMatching("name", region, subregion, intermediate_region) = {}
           => avail_countries = << >>
    /\ GeographyFiltered
       /\ (\A r \in Range(WithExporterName(country_df)) :
               IF country # None THEN r.exporter_name # country
               ELSE ~ AncestorsMatch(r, region, subregion,
                                     intermediate_region))
           => geo_filtered = << >>
    /\ pc = "flows" /\ ResolvedCountries = {}
           => exports = << >> /\ imports = << >>

\* a region is chosen whose rows name no country: no country is listed and,
\* with records in the filtered table, no export and no import is selected
C7_Witness ==
    /\ pc = "flows" /\ region # None /\ country = None
    /\ ResolvedCountries = {}
    /\ avail_countries = << >> /\ countries = << >>
    /\ df_filtered # << >>
    /\ exports = << >> /\ imports = << >>

\* the sum of the quantities of a column that are present
RECURSIVE SeqSum(_)
SeqSum(s) == IF s = << >> THEN 0 ELSE s[1] + SeqSum(Tail(s))

NonNullSum(qs) ==
    LET present == SelectSeq(qs, LAMBDA q : q # NaNf)
    IN  SeqSum([i \in 1..Len(present) |-> present[i][1]])

\* the partners of the records of a year, the total of one of them, and the
\* place of its first record in the input
Partners(rows, column) == { rows[i][column] : i \in 1..Len(rows) }

PartnerTotal(rows, column, name) ==
    NonNullSum(Quantity(SelectSeq(rows, LAMBDA r : r[column] = name)))

FirstSeen(rows, column, name) ==
    CHOOSE i \in 1..Len(rows) :
        /\ rows[i][column] = name
        /\ \A j \in 1..(i - 1) : rows[j][column] # name

ExportsRanked == pc \in { "top_exports", "top_imports" }
ImportsRanked == pc = "top_imports"
ExportsSelectedYear == RowsOfYear(exports, selected_year)
ImportsSelectedYear == RowsOfYear(imports, selected_year_imports)

\* a ranking lists distinct partners of the year's records with their totals,
\* in descending order of total, and at most 20 of them
Ranking(totals, rows, column) ==
    /\ Len(totals) <= 20
    /\ \A i, j \in 1..Len(totals) :
           i < j => /\ totals[i].quantity >= totals[j].quantity
                    /\ totals[i].name # totals[j].name
    /\ \A i \in 1..Len(totals) :
           /\ totals[i].name \in Partners(rows, column)
           /\ totals[i].quantity = PartnerTotal(rows, column, totals[i].name)

\* C8: the ranking of a chosen year orders the partners by their total
\* quantity of that year, descending, holds at most 20 partners however many
\* there are, and the breakdown by product holds only records of the ranked
\* partners; for the export destinations and for the import sources.
C8_TopTwentyDescending ==
    /\ ExportsRanked =>
           /\ Ranking(country_totals, ExportsSelectedYear, "importer_name")
           /\ \A i \in 1..Len(top_exports) :
                  \E k \in 1..Len(country_totals) :
                      top_exports[i].importer_name = country_totals[k].name
    /\ ImportsRanked =>
           /\ Ranking(country_totals_imports, ImportsSelectedYear,
                      "exporter_name")
           /\ \A i \in 1..Len(top_imports) :
                  \E k \in 1..Len(country_totals_imports) :
                      top_imports[i].exporter_name
                          = country_totals_imports[k].name

\* more than 20 destinations, the first three of the table with totals 500,
\* 1200 and 300: 20 are ranked, 1200, 500, 300 in front, and the records of
\* a destination that is not ranked are not in the breakdown
C8_Witness ==
    /\ pc = "top_exports"
    /\ Cardinality(Partners(ExportsSelectedYear, "importer_name")) > 20
    /\ Len(country_totals) = 20
    /\ << country_totals[1].quantity, country_totals[2].quantity,
          country_totals[3].quantity >> = << 1200, 500, 300 >>
    /\ \E r \in Range(ExportsSelectedYear) :
           \A i \in 1..Len(top_exports) :
               top_exports[i].importer_name # r.importer_name

\* equal totals in the order of the partners' first records, and across the
\* cut the partner seen first kept
FirstSeenWins(totals, rows, column) ==
    /\ \A i, j \in 1..Len(totals) :
           i < j /\ totals[i].quantity = totals[j].quantity
           => FirstSeen(rows, column, totals[i].name)
                  < FirstSeen(rows, column, totals[j].name)
    /\ \A i \in 1..Len(totals) :
           \A d \in Partners(rows, column) \ Names(totals) :
               PartnerTotal(rows, column, d) = totals[i].quantity
               => FirstSeen(rows, column, totals[i].name)
                      < FirstSeen(rows, column, d)

\* C9, as stated: partners with equal totals are ranked in the order of
\* their first records in the input, and of a tie across the 20th place the
\* partner seen first is kept.
C9_FirstSeenWins ==
    /\ ExportsRanked =>
           FirstSeenWins(country_totals, ExportsSelectedYear, "importer_name")
    /\ ImportsRanked =>
           FirstSeenWins(country_totals_imports, ImportsSelectedYear,
                         "exporter_name")

\* the ranking keeps min(20, number of partners) partners and no partner left
\* out has a larger total than a partner kept
KeepsLargest(totals, rows, column) ==
    /\ Len(totals) = IF Cardinality(Partners(rows, column)) < 20
                     THEN Cardinality(Partners(rows, column)) ELSE 20
    /\ \A i \in 1..Len(totals) :
           \A d \in Partners(rows, column) \ Names(totals) :
               PartnerTotal(rows, column, d) <= totals[i].quantity

\* C9, amended: the ranking is decided by the totals alone.  It keeps the
\* min(20, number of partners) partners with the largest totals; the order of
\* partners with equal totals, and which partner of a tie across the 20th
\* place is kept, does not follow the order of the input records.
C9_TotalsAloneDecide ==
    /\ ExportsRanked =>
           KeepsLargest(country_totals, ExportsSelectedYear, "importer_name")
    /\ ImportsRanked =>
           KeepsLargest(country_totals_imports, ImportsSelectedYear,
                        "exporter_name")

\* a tie across the 20th place: the partner left out has the total of the
\* last partner kept, and its first record comes earlier in the input
C9_Witness ==
    /\ pc = "top_exports" /\ Len(country_totals) = 20
    /\ \E d \in Partners(ExportsSelectedYear, "importer_name")
                    \ Names(country_totals) :
           /\ PartnerTotal(ExportsSelectedYear, "importer_name", d)
                  = country_totals[20].quantity
           /\ FirstSeen(ExportsSelectedYear, "importer_name", d)
                  < FirstSeen(ExportsSelectedYear, "importer_name",
                              country_totals[20].name)

MetricsComputed == pc \in { "metrics", "series", "charts" }

\* the records of a flow that make up a row of its time series
GroupOf(rows, y) ==
    SelectSeq(rows, LAMBDA r :
        r.year = y.year /\ r.category = y.category /\ r.product = y.product)

\* C10: a missing quantity is left out of every sum: the totals of the latest
\* year and every row of the time series are the sum of the quantities
\* present in their records ([100, missing, 200] sums to 300), and a group
\* whose quantities are all missing sums to 0.
C10_NullsExcluded ==
    /\ MetricsComputed =>
           /\ total_exports
                  = NonNullSum(Quantity(RowsOfYear(exports,
                                                   selected_metrics_year)))
           /\ total_imports
                  = NonNullSum(Quantity(RowsOfYear(imports,
                                                   selected_metrics_year)))
    /\ pc = "series" =>
           /\ \A i \in 1..Len(yearly_exports) :
                  yearly_exports[i].quantity
                      = NonNullSum(Quantity(GroupOf(exports, yearly_exports[i])))
           /\ \A i \in 1..Len(yearly_imports) :
                  yearly_imports[i].quantity
                      = NonNullSum(Quantity(GroupOf(imports, yearly_imports[i])))

\* the example: the exports of the latest year have the quantities 100,
\* missing, 200, and both the total and the time series give 300
C10_Witness ==
    /\ pc = "series"
    /\ Quantity(RowsOfYear(exports, selected_metrics_year))
           = << Float(100), NaNf, Float(200) >>
    /\ total_exports = 300
    /\ Len(yearly_exports) = 1 /\ yearly_exports[1].quantity = 300

\* the records of the filtered table that the selection exports,
\* respectively imports, in the metrics year
SelectionExports ==
    SelectSeq(RowsOfYear(df_filtered, selected_metrics_year), LAMBDA r :
        r.exporter_name \in ResolvedCountries)

SelectionImports ==
    SelectSeq(RowsOfYear(df_filtered, selected_metrics_year), LAMBDA r :
        r.importer_name \in ResolvedCountries)

\* C11: the trade balance shown is the sum of the quantities of the exports
\* minus the sum of the quantities of the imports, both of the same filtered
\* table (products, years, geographic selection) and of the same metrics
\* year.
C11_TradeBalance ==
    MetricsComputed =>
        /\ trade_balance
               = NonNullSum(Quantity(SelectionExports))
                 - NonNullSum(Quantity(SelectionImports))
        /\ trade_balance = total_exports - total_imports

\* the selection imports more than it exports: the balance is negative
C11_Witness ==
    /\ pc = "metrics"
    /\ total_exports > 0 /\ total_imports > total_exports
    /\ trade_balance = total_exports - total_imports
    /\ trade_balance < 0

\* C12: the number of trading partners is the size of the union of the
\* importer names of the exports and the exporter names of the imports of the
\* metrics year; a partner on both sides counts once.
C12_PartnerCount ==
    MetricsComputed =>
        num_partners
            = Cardinality(
                  { r.importer_name :
                      r \in Range(RowsOfYear(exports, selected_metrics_year)) }
                  \cup
                  { r.exporter_name :
                      r \in Range(RowsOfYear(imports, selected_metrics_year)) })

\* China exports to the USA and imports from the USA: one partner
C12_Witness ==
    /\ pc = "metrics" /\ country = "China"
    /\ \E r \in Range(RowsOfYear(exports, selected_metrics_year)) :
           r.importer_name = "USA"
    /\ \E r \in Range(RowsOfYear(imports, selected_metrics_year)) :
           r.exporter_name = "USA"
    /\ num_partners = 1

\* C19: whatever checkboxes are ticked, the product codes used for
\* filtering are a non-empty subset of the codes of the taxonomy: the ticked
\* codes if there are any, else the default code alone, the first code of the
\* first category ("260700").
C19_NeverNoProduct ==
    pc # "start" =>
        /\ selected_hs_codes # << >>
        /\ Range(selected_hs_codes) \subseteq Range(TaxonomyCodes)
        /\ ticked # {} => Range(selected_hs_codes) = ticked
        /\ ticked = {} => selected_hs_codes = << "260700" >>

\* no checkbox is ticked and the table has records of every product: the
\* records of the default code are what is filtered
C19_Witness ==
    /\ pc = "flows" /\ ticked = {}
    /\ selected_hs_codes = << "260700" >>
    /\ Len(df) > 1
    /\ Len(df_filtered) = 1 /\ df_filtered[1].product = "260700"

\* load_trade_data has returned a table
TradeLoaded == pc # "start" /\ ~ trade_result.raised
LoadedTable == trade_result.returned[1]
RawTable == trade_source.rows

Zeros == << "0", "00", "000", "0000", "00000" >>

\* C13: padding a product code is idempotent: a code of 6 characters is
\* returned unchanged, padding the padded codes again changes nothing, and
\* a shorter code gets zeros on the left up to 6 characters ("7801" becomes
\* "007801", "260700" stays "260700").
C13_PaddingIdempotent ==
    /\ TradeLoaded =>
           \A i \in 1..Len(RawTable) :
               LET text == AsTypeStr(RawTable[i].product)
               IN  /\ Len(text) = 6 => LoadedTable[i].product = text
                   /\ Len(text) < 6 =>
                          /\ LoadedTable[i].product
                                 = Zeros[6 - Len(text)] \o text
                          /\ Len(LoadedTable[i].product) = 6
    /\ pc \in { "padded", "filtered" } =>
           repadded = [i \in 1..Len(LoadedTable) |-> LoadedTable[i].product]

\* the two examples in one table, padded by the loader and once more
C13_Witness ==
    /\ pc = "padded"
    /\ Len(RawTable) = 2
    /\ RawTable[1].product = Object("7801")
    /\ RawTable[2].product = Object("260700")
    /\ LoadedTable[1].product = "007801"
    /\ LoadedTable[2].product = "260700"
    /\ repadded = << "007801", "260700" >>

AllDigits(s) ==
    \A i \in 1..Len(s) : \E d \in 1..10 : SubSeq(s, i, i) = DigitChars[d]

SixDigits(s) == Len(s) = 6 /\ AllDigits(s)

\* C14, as stated: after load_trade_data the product code of every record is
\* a string of exactly 6 digit characters, whatever the source value.
C14_AlwaysSixDigits ==
    TradeLoaded =>
        \A i \in 1..Len(LoadedTable) : SixDigits(LoadedTable[i].product)

\* C14, amended: after load_trade_data the product code of a record is a
\* string of exactly 6 digit characters when its source value is written
\* with at most 6 digits and nothing else; zfill never shortens, so any other
\* source value (more than 6 digits, a float, a missing value) keeps all its
\* characters and its code is not 6 digits.
C14_SixDigitsUpToSix ==
    TradeLoaded =>
        \A i \in 1..Len(LoadedTable) :
            LET text == AsTypeStr(RawTable[i].product)
            IN  IF AllDigits(text) /\ Len(text) <= 6
                THEN SixDigits(LoadedTable[i].product)
                ELSE /\ LoadedTable[i].product
                            = (IF Len(text) >= 6 THEN text
                               ELSE Zeros[6 - Len(text)] \o text)
                     /\ ~ SixDigits(LoadedTable[i].product)

\* a value of four digits and a value of seven digits in one table: the first
\* is padded to six, the second keeps its seven
C14_Witness ==
    /\ pc = "country_loaded" /\ TradeLoaded
    /\ Len(RawTable) = 2
    /\ RawTable[1].product = Int64(7801)
    /\ RawTable[2].product = Int64(1234567)
    /\ LoadedTable[1].product = "007801"
    /\ LoadedTable[2].product = "1234567"

\* the categories of the taxonomy that list a code
ListedUnder(code) ==
    { k \in 1..Len(CONFIG_HS_CODE_CATEGORIES) :
        \E j \in 1..Len(CONFIG_HS_CODE_CATEGORIES[k].products) :
            CONFIG_HS_CODE_CATEGORIES[k].products[j] = code }

ConfigCodes ==
    UNION { Range(CONFIG_HS_CODE_CATEGORIES[k].products) :
              k \in 1..Len(CONFIG_HS_CODE_CATEGORIES) }

\* C15: the classification is total and single-valued on the taxonomy: every
\* code of HS_CODE_CATEGORIES is listed under one category only and
\* HS_TO_CATEGORY gives a loaded record of that code that category (780110
\* New Lead, 850710 New Batteries, 260700 Ores & Concentrates); a record whose
\* code is not in the taxonomy gets a missing category and the load does not
\* fail.
C15_ClassificationTotal ==
    /\ \A code \in ConfigCodes : Cardinality(ListedUnder(code)) = 1
    /\ TradeLoaded =>
           \A i \in 1..Len(LoadedTable) :
               LET code == LoadedTable[i].product
               IN  /\ code \in ConfigCodes =>
                          \E k \in ListedUnder(code) :
                              LoadedTable[i].category
                                  = CONFIG_HS_CODE_CATEGORIES[k].category
                   /\ code \notin ConfigCodes => LoadedTable[i].category = NaN
                   /\ code = "780110" => LoadedTable[i].category = "New Lead"
                   /\ code = "850710" =>
                          LoadedTable[i].category = "New Batteries"
                   /\ code = "260700" =>
                          LoadedTable[i].category = "Ores & Concentrates"
    /\ pc # "start" /\ trade_result.raised =>
           \/ trade_source.state # "table"
           \/ ~ ({ "exporter_name", "importer_name", "product" }
                     \subseteq trade_source.columns)
           \/ ~ HasStrAccessor([i \in 1..Len(RawTable) |->
                                   RawTable[i].exporter_name])
           \/ ~ HasStrAccessor([i \in 1..Len(RawTable) |->
                                   RawTable[i].importer_name])

\* a code of the taxonomy and a code outside it in one loaded table
C15_Witness ==
    /\ pc = "trade_loaded" /\ TradeLoaded
    /\ Len(LoadedTable) = 2
    /\ LoadedTable[1].product = "780110"
    /\ LoadedTable[1].category = "New Lead"
    /\ LoadedTable[2].product = "007801"
    /\ LoadedTable[2].category = NaN

\* sub occurs in s
Contains(s, sub) ==
    \E i \in 1..(Len(s) - Len(sub) + 1) :
        SubSeq(s, i, i + Len(sub) - 1) = sub

NameColumns == { "exporter_name", "importer_name" }

\* the records of the corrupted name are found by the filters on the
\* repaired name
RepairedMatched ==
    pc = "filtered" =>
        \A i \in 1..Len(RawTable) :
            /\ RawTable[i].exporter_name = Corrupted =>
                   \E j \in 1..Len(geo_filtered) :
                       geo_filtered[j] = LoadedTable[i]
            /\ RawTable[i].importer_name = Corrupted =>
                   \E j \in 1..Len(imports) : imports[j] = LoadedTable[i]

\* C16, as stated: load_trade_data rewrites the corrupted name to the
\* repaired name in both name columns: no loaded record has the corrupted
\* name, every other name is unchanged, and a record that had the corrupted
\* name is matched by a country filter on the repaired name.
C16_OnlyCorruptedNameChanged ==
    /\ TradeLoaded =>
           \A i \in 1..Len(RawTable) : \A c \in NameColumns :
               /\ LoadedTable[i][c] # Corrupted
               /\ RawTable[i][c] = Corrupted => LoadedTable[i][c] = Repaired
               /\ RawTable[i][c] # Corrupted =>
                      LoadedTable[i][c] = RawTable[i][c]
    /\ RepairedMatched

\* C16, amended: load_trade_data rewrites every occurrence of the corrupted
\* string in both name columns: no loaded name holds it, a name that was the
\* corrupted string is the repaired name and is matched by a country filter
\* on it, a longer name that held the corrupted string is changed too, and
\* only the names that did not hold it are unchanged.
C16_EveryOccurrenceRepaired ==
    /\ TradeLoaded =>
           \A i \in 1..Len(RawTable) : \A c \in NameColumns :
               /\ ~ Contains(LoadedTable[i][c], Corrupted)
               /\ RawTable[i][c] = Corrupted => LoadedTable[i][c] = Repaired
               /\ IF Contains(RawTable[i][c], Corrupted)
                  THEN /\ LoadedTable[i][c] # RawTable[i][c]
                       /\ Contains(LoadedTable[i][c], Repaired)
                  ELSE LoadedTable[i][c] = RawTable[i][c]
    /\ RepairedMatched

\* one exporter is the corrupted name, another holds it inside a longer
\* name: both are rewritten, and the filter on the repaired name finds the
\* first record only
C16_Witness ==
    /\ pc = "filtered"
    /\ Len(RawTable) = 2
    /\ RawTable[1].exporter_name = Corrupted
    /\ RawTable[2].exporter_name = "Rep. of " \o Corrupted
    /\ LoadedTable[1].exporter_name = Repaired
    /\ LoadedTable[2].exporter_name = "Rep. of " \o Repaired
    /\ geo_filtered = << LoadedTable[1] >>

\* the sources load_trade_data cannot load: no table, or a table without one
\* of the three columns it processes
TradeSourceBad ==
    \/ trade_source.state \in { "missing", "unreadable", "malformed" }
    \/ \E c \in { "exporter_name", "importer_name", "product" } :
           c \notin trade_source.columns

CountrySourceBad ==
    country_source.state \in { "missing", "unreadable", "malformed" }

BeginsWith(s, prefix) ==
    Len(s) >= Len(prefix) /\ SubSeq(s, 1, Len(prefix)) = prefix

TradeCalled == pc # "start"
CountryCalled == pc \notin { "start", "trade_loaded" }

\* C17: load_trade_data and load_country_data of data_loader.py raise an
\* exception whose message begins "Error loading trade data" / "Error loading
\* country data" when the source is missing, unreadable or not parseable, and
\* load_trade_data also when the table lacks exporter_name, importer_name or
\* product; a call that raises returns no table, a call that returns has
\* processed every row.
C17_LoadErrors ==
    /\ TradeCalled =>
           /\ TradeSourceBad => trade_result.raised
           /\ trade_result.raised =>
                  /\ BeginsWith(trade_result.message,
                                "Error loading trade data")
                  /\ trade_result.returned = << >>
           /\ ~ trade_result.raised =>
                  /\ Len(trade_result.returned) = 1
                  /\ Len(LoadedTable) = Len(RawTable)
                  /\ \A i \in 1..Len(LoadedTable) :
                         /\ Len(LoadedTable[i].product) >= 6
                         /\ ~ Contains(LoadedTable[i].exporter_name, Corrupted)
                         /\ ~ Contains(LoadedTable[i].importer_name, Corrupted)
    /\ CountryCalled =>
           /\ CountrySourceBad <=> country_result.raised
           /\ country_result.raised =>
                  /\ BeginsWith(country_result.message,
                                "Error loading country data")
                  /\ country_result.returned = << >>
           /\ ~ country_result.raised =>
                  country_result.returned = << country_source.rows >>

\* the trade table has the corrupted name to repair but no product column,
\* and there is no country file: both calls raise and return nothing
C17_Witness ==
    /\ pc = "country_loaded"
    /\ trade_source.state = "table"
    /\ "product" \notin trade_source.columns
    /\ RawTable # << >>
    /\ trade_result.raised
    /\ trade_result.message = "Error loading trade data: 'product'"
    /\ trade_result.returned = << >>
    /\ country_source.state = "missing"
    /\ country_result.raised /\ country_result.returned = << >>

(***************************************************************************)
(* The stop after a failed load, and the caches.                           *)
(***************************************************************************)
\* both names are bound in this run
BothBound == pc \notin { "start", "trade_bound", "loaded" }

\* a loader of app.py failed in this run: it did not return a table
TradeLoadFailed == loaded_df.type # "DataFrame"
CountryLoadFailed == loaded_country_df.type # "DataFrame"

\* nothing of lines 203-377 has been computed in this run
NothingComputed ==
    /\ selected_hs_codes = << >> /\ selected_years = << 0, 0 >>
    /\ subregions = << >> /\ intermediate = << >> /\ countries = << >>
    /\ df_filtered = << >> /\ exports = << >> /\ imports = << >>

\* C18: in app.py, when the loading of either table has failed, the script
\* is stopped before the sidebar is built and before any filtering or
\* aggregation, so that nothing is computed with a missing table.
C18_HaltsOnFailedLoad ==
    (BothBound /\ (TradeLoadFailed \/ CountryLoadFailed))
        => (pc = "stopped" /\ NothingComputed)

\* a step that binds df, or country_df, in a run after the first
LaterTradeQuery == pc = "start" /\ pc' = "trade_bound" /\ runs >= 1
LaterCountryQuery == pc = "trade_bound" /\ pc' = "loaded" /\ runs >= 2

\* C20: over every sequence of runs of the script, the body of each cached
\* loader reads its source at most once, and every later call of the loader
\* gets the value the call before it got, hence the value of the first
\* call, whether that load succeeded or failed.
C20_LoadedOnce ==
    [][ /\ reads'.trade <= 1 /\ reads'.country <= 1
        /\ LaterTradeQuery => loaded_df' = loaded_df
        /\ LaterCountryQuery => loaded_country_df' = loaded_country_df ]_vars

\* the second run after a first run whose two loads failed: both files are
\* readable tables now, each has been read once, and the script still gets
\* the values of the failed loads
C20_Witness ==
    /\ runs = 2 /\ pc = "loaded"
    /\ trade_source.state = "table" /\ "product" \in trade_source.columns
    /\ trade_source.rows # << >>
    /\ country_source.state = "table"
    /\ reads = [trade |-> 1, country |-> 1]
    /\ loaded_df = NoneValue /\ loaded_country_df = TupleOfNone

(***************************************************************************)
(* The colours of the time-series charts.                                  *)
(***************************************************************************)
OwnColors(fig_colors) ==
    \A k \in 1..Len(fig_colors) :
        fig_colors[k].color = HS_CODE_COLORS(fig_colors[k].product)

\* C21: in the exports and in the imports time-series chart every product
\* is drawn in the colour configured for it, HS_CODE_COLORS[product], for
\* every selection of products.
C21_OwnColors ==
    pc = "charts" => (OwnColors(fig1_colors) /\ OwnColors(fig3_colors))

(***************************************************************************)
(* The themes of charts.py.                                                *)
(***************************************************************************)
\* C22: get_plotly_template returns 'plotly' for 'light' and 'plotly_dark'
\* for 'dark'; get_theme_colors returns font colour '#1a1a1a' for 'light'
\* and '#ffffff' for 'dark', with the same grid and line colour in both;
\* every theme value other than 'light' is treated as dark.
C22_Themes ==
    /\ pc # "start" =>
          /\ theme = "light" => template = "plotly"
          /\ theme # "light" => template = "plotly_dark"
    /\ get_theme_colors("light").font_color = "#1a1a1a"
    /\ get_theme_colors("dark").font_color = "#ffffff"
    /\ get_theme_colors(theme).grid_color = get_theme_colors("dark").grid_color
    /\ get_theme_colors(theme).line_color = get_theme_colors("dark").line_color
    /\ get_theme_colors("light").grid_color = get_theme_colors("dark").grid_color
    /\ get_theme_colors("light").line_color = get_theme_colors("dark").line_color
    /\ theme # "light" => get_theme_colors(theme) = get_theme_colors("dark")
    /\ pc = "styled" =>
          /\ layout[1].font.color =
                 IF theme = "light" THEN "#1a1a1a" ELSE "#ffffff"
          /\ layout[1].title_font.color = layout[1].font.color
          /\ layout[1].xaxis.gridcolor = layout[1].yaxis.gridcolor
          /\ layout[1].xaxis.linecolor = layout[1].yaxis.linecolor

\* a figure styled with a theme value that is neither 'light' nor 'dark'
C22_Witness ==
    /\ pc = "styled"
    /\ theme = "Light"
    /\ template = "plotly_dark"
    /\ layout[1].font.color = "#ffffff"

(***************************************************************************)
(* The selectors of app.py against the listing functions of filters.py.    *)
(***************************************************************************)
NoAncestor ==
    region = None /\ subregion = None /\ intermediate_region = None

KnownCountryNames ==
    { country_df[i].name : i \in 1..Len(country_df) } \ { NaN }

\* C23: the lists app.py offers under the region, the subregion and the
\* intermediate region chosen are the lists get_available_subregions,
\* get_available_intermediate_regions and get_available_countries return
\* for the same table and choices; with no country chosen the country set
\* of the exports and imports is every country name that satisfies all
\* chosen ancestors, which is every known name when no ancestor is chosen.
C23_SelectorsAsFilters ==
    pc = "flows" =>
        /\ subregions = avail_subregions
        /\ intermediate = avail_intermediate
        /\ countries = avail_countries
        /\ country = None =>
              /\ Range(countries) = ResolvedCountries
              /\ NoAncestor => Range(countries) = KnownCountryNames
              /\ \A r \in Range(exports) :
                     r.exporter_name \in ResolvedCountries
              /\ \A r \in Range(imports) :
                     r.importer_name \in ResolvedCountries

\* a region and a subregion are chosen and no country: the country list is
\* narrowed, and records flow out of and into the countries left
C23_Witness ==
    /\ pc = "flows"
    /\ region # None /\ subregion # None /\ country = None
    /\ countries # << >>
    /\ Range(countries) # KnownCountryNames
    /\ exports # << >> /\ imports # << >>

(***************************************************************************)
(* The year of the key metrics.                                            *)
(***************************************************************************)
\* the product- and year-filtered records, whatever the geographic choice
ProductYearFiltered ==
    SelectSeq(df, LAMBDA r :
        /\ r.product \in Range(SelectedHsCodes(ticked))
        /\ selected_years[1] <= r.year /\ r.year <= selected_years[2])

\* C24: the key metrics are those of the most recent year of the filtered
\* range: the metrics year is the largest year among the product- and
\* year-filtered records, whatever the geographic selection, and when the
\* selection has no record in that year the total exports, the total
\* imports, the trade balance and the partner count are all 0.
C24_MetricsOfLatestYear ==
    MetricsComputed =>
        /\ ProductYearFiltered # << >> =>
              /\ selected_metrics_year # NaNf
              /\ \E r \in Range(ProductYearFiltered) :
                     r.year = selected_metrics_year[1]
              /\ \A r \in Range(ProductYearFiltered) :
                     r.year <= selected_metrics_year[1]
        /\ (SelectionExports = << >> /\ SelectionImports = << >>) =>
              /\ total_exports = 0 /\ total_imports = 0
              /\ trade_balance = 0 /\ num_partners = 0

\* Germany is chosen and trades in 2020 only, the filtered range ends with
\* the records other countries have in 2021: the four metrics are 0
C24_Witness ==
    /\ pc = "metrics"
    /\ country = "Germany"
    /\ exports # << >>
    /\ selected_metrics_year = Float(2021)
    /\ \A r \in Range(exports) : r.year < 2021
    /\ total_exports = 0 /\ total_imports = 0
    /\ trade_balance = 0 /\ num_partners = 0

(***************************************************************************)
(* The time series.                                                        *)
(***************************************************************************)
SeriesComputed == pc \in { "series", "charts" }

\* a time series is the grouping of a flow: one row per (year, category,
\* product) of the flow, each the sum of the quantities present in its
\* records, and the same total as the flow
SeriesOf(yearly, flow) ==
    /\ \A r \in Range(flow) :
           Cardinality({ i \in 1..Len(yearly) :
                           /\ yearly[i].year = r.year
                           /\ yearly[i].category = r.category
                           /\ yearly[i].product = r.product }) = 1
    /\ \A i \in 1..Len(yearly) :
           /\ GroupOf(flow, yearly[i]) # << >>
           /\ yearly[i].quantity
                  = NonNullSum(Quantity(GroupOf(flow, yearly[i])))
    /\ SeqSum([i \in 1..Len(yearly) |-> yearly[i].quantity])
           = NonNullSum(Quantity(flow))

\* C25: the exports and the imports time series have one row per (year,
\* category, product) occurring in the flow, whose quantity is the sum of
\* the non-null quantities of those records; no record is lost, so the
\* total of the series is the total non-null quantity of the flow.
C25_SeriesKeepsEveryRecord ==
    SeriesComputed =>
        /\ SeriesOf(yearly_exports, exports)
        /\ SeriesOf(yearly_imports, imports)

\* the example: China exports 1000 of 780110 in 2020 and 1200 in 2021, and
\* the change of the latest year is 20 percent
C25_Witness ==
    /\ pc = "series"
    /\ country = "China"
    /\ yearly_exports
           = << [year |-> 2020, category |-> "New Lead",
                 product |-> "780110", quantity |-> 1000],
                [year |-> 2021, category |-> "New Lead",
                 product |-> "780110", quantity |-> 1200] >>
    /\ exports_change = Frac(20, 1)

(***************************************************************************)
(* The year-over-year change of the key metrics.                           *)
(***************************************************************************)
\* the records inside the selected products and years that the selection
\* exports, respectively imports, in the year before the metrics year
PreviousYearExports ==
    IF selected_metrics_year = NaNf THEN << >>
    ELSE SelectSeq(ProductYearFiltered, LAMBDA r :
             /\ r.year = selected_metrics_year[1] - 1
             /\ r.exporter_name \in ResolvedCountries)

PreviousYearImports ==
    IF selected_metrics_year = NaNf THEN << >>
    ELSE SelectSeq(ProductYearFiltered, LAMBDA r :
             /\ r.year = selected_metrics_year[1] - 1
             /\ r.importer_name \in ResolvedCountries)

PreviousYearOutside ==
    selected_metrics_year # NaNf
    /\ selected_metrics_year[1] - 1 < selected_years[1]

\* C26: the change shown for exports and for imports compares the metrics
\* year with the year before it using only records inside the selected year
\* range: when the year before lies outside the range, in particular when
\* the range is a single year, or has no quantity for the selection, the
\* change is 0, whatever the loaded data holds for that year.
C26_ChangeInsideRange ==
    MetricsComputed =>
        /\ exports_prev_year = NonNullSum(Quantity(PreviousYearExports))
        /\ imports_prev_year = NonNullSum(Quantity(PreviousYearImports))
        /\ exports_change
               = calculate_yoy_change(total_exports, exports_prev_year)
        /\ imports_change
               = calculate_yoy_change(total_imports, imports_prev_year)
        /\ PreviousYearOutside =>
              /\ exports_prev_year = 0 /\ exports_change = Frac(0, 1)
              /\ imports_prev_year = 0 /\ imports_change = Frac(0, 1)
        /\ NonNullSum(Quantity(PreviousYearExports)) = 0 =>
              exports_change = Frac(0, 1)
        /\ NonNullSum(Quantity(PreviousYearImports)) = 0 =>
              imports_change = Frac(0, 1)

\* the range is the single year 2021 and China is chosen: the loaded table
\* holds exports of China of 1000 in 2020, and the change shown is 0
C26_Witness ==
    /\ pc = "metrics"
    /\ selected_years = << 2021, 2021 >>
    /\ country = "China"
    /\ total_exports = 1200
    /\ \E r \in Range(df) :
           /\ r.year = 2020 /\ r.exporter_name = "China"
           /\ r.quantity = Float(1000)
           /\ r.product \in Range(selected_hs_codes)
    /\ exports_prev_year = 0
    /\ exports_change = Frac(0, 1)

(***************************************************************************)
(* The inputs of the filters and of the aggregations.                      *)
(***************************************************************************)
\* C27: filtering and aggregation never modify their input: the table
\* passed to filter_by_geography has the same rows in the same order after
\* the call, for every combination of arguments, and the computation of
\* df_filtered, exports, imports and the rollups leaves the loaded trade
\* table and the loaded country table as they were.
C27_InputsUnchanged ==
    [][country_df' = country_df /\ df' = df]_vars

\* filter_by_geography has returned fewer rows than it was given, the flows
\* are a part of the trade table, and the metrics and the time series have
\* been computed from them
C27_Witness ==
    /\ pc = "series"
    /\ df = AllFlows
    /\ geo_filtered # << >> /\ Len(geo_filtered) < Len(country_df)
    /\ exports # << >> /\ Len(exports) < Len(df)
    /\ imports # << >> /\ Len(imports) < Len(df)
    /\ yearly_exports # << >> /\ total_exports > 0

(***************************************************************************)
(* The data offered for download.                                          *)
(***************************************************************************)
\* C28: the downloadable data set is exactly the union of the exports and
\* the imports: every filtered record whose exporter or importer is in the
\* resolved country set (or is the chosen country), each once even when it
\* is in both flows, and no other record.
C28_DownloadIsUnion ==
    pc = "download" =>
        /\ ExactlyKept(filtered_data, df_filtered,
               [r \in Range(df_filtered) |->
                   \/ r.exporter_name \in ResolvedCountries
                   \/ r.importer_name \in ResolvedCountries])
        /\ Range(filtered_data) = Range(exports) \cup Range(imports)
        /\ \A r \in Range(filtered_data) :
               Count(r, filtered_data) = Count(r, df_filtered)

\* a record is in both flows and once in the download, another record is in
\* one flow only, a third is not offered
C28_Witness ==
    /\ pc = "download"
    /\ \E r \in Range(exports) :
           r \in Range(imports) /\ Count(r, filtered_data) = 1
    /\ \E r \in Range(filtered_data) : r \notin Range(imports)
    /\ \E r \in Range(df_filtered) : r \notin Range(filtered_data)

(***************************************************************************)
(* The two loaders of the trade table.                                     *)
(***************************************************************************)
SameColumns(a, b) ==
    /\ Len(a) = Len(b)
    /\ \A i \in 1..Len(a) :
           /\ a[i].exporter_name = b[i].exporter_name
           /\ a[i].importer_name = b[i].importer_name
           /\ a[i].product = b[i].product
           /\ a[i].category = b[i].category

\* C29: the two loaders of the trade table agree: for every source,
\* load_trade_data of app.py and load_trade_data of data_loader.py give the
\* same exporter_name, importer_name, product and category columns, and
\* both signal failure on the same sources.
C29_LoadersAgree ==
    pc = "both_loaded" =>
        /\ trade_result.raised <=> loaded_df.type # "DataFrame"
        /\ ~ trade_result.raised =>
               SameColumns(trade_result.returned[1], loaded_df.table)

(***************************************************************************)
(* The injection of the analytics script.                                  *)
(***************************************************************************)
\* how often the analytics script occurs in a file
Scripts(html) ==
    Cardinality({ i \in 1..Len(html) :
                    html[i] \in { ANALYTICS_JS, TagWithId(ANALYTICS_ID) } })

\* C30: the injection is idempotent: after any number of calls of
\* inject_simple_analytics index.html holds the analytics script exactly
\* once, and the backup, once it exists, always holds the original
\* index.html, without the script.
C30_InjectedOnce ==
    /\ (calls >= 1 /\ original_index = ShippedIndex) =>
           Scripts(index_html) = 1
    /\ bck_index.exists =>
           /\ bck_index.content = original_index
           /\ Scripts(bck_index.content) = 0

=============================================================================
